---------------------------- MODULE Spec2Model ----------------------------
(***************************************************************************)
(* A model of the KWP2000 tester client of kwp2000-rs: the session client  *)
(* (kwp2000/client.rs) driving an Interface (kwp2000/mod.rs) whose incoming *)
(* frames are typed by from_raw (kwp2000/response.rs), the requests being   *)
(* projected by Message::raw (kwp2000/message.rs) and download blocks being *)
(* produced by the BCB codec (bcb.rs).                                      *)
(*                                                                         *)
(* Values are uniform records so that any two of them can be compared:     *)
(*   a raw frame   [service |-> byte, data |-> sequence of bytes]          *)
(*   a Message     [t |-> variant name, b |-> sequence of numbers]         *)
(*   a Response    [t |-> variant name, b |-> sequence of numbers]         *)
(*   a Result      [st |-> "Ok" | "Err" | "Panic", e |-> error name, ...]  *)
(* An Option<T> inside b is the empty or the one-element tail of b.        *)
(***************************************************************************)
EXTENDS Integers, Sequences, FiniteSets, TLC

(***************************************************************************)
(* Bounds of the model.                                                    *)
(***************************************************************************)
\* a buffer handed to write_data_bosch is a stretch of at most MaxLiteral
\* bytes of one value followed by a run of at most MaxRun bytes of another
MaxLiteral == 2
MaxRun == 4
\* most frames one operation lets next_response skip (echoes, pending)
MaxSkips == 1
\* most frames one upload goes on after (UploadConfirmation, non-empty
\* DataTransfer)
MaxUploadFrames == 3
\* most frames one download goes on after (DownloadConfirmation,
\* ReadyForMoreData)
MaxDownloadFrames == 3

\* how far the payload lengths reach around the limits of the frame codec
Margin == 1

\* longest input and largest output budget handed to create_bcb_data
MaxInput == 8
MaxBudget == 10

(***************************************************************************)
(* Bytes and bit operations.                                               *)
(***************************************************************************)
Min(a, b) == IF a < b THEN a ELSE b

RECURSIVE XorBits(_, _, _)
XorBits(a, b, n) ==
    IF n = 0 THEN 0
    ELSE (((a % 2) + (b % 2)) % 2) + (2 * XorBits(a \div 2, b \div 2, n - 1))

\* u8 ^ u8
Xor8(a, b) == XorBits(a, b, 8)

\* the tail of a sequence from (0-based) index i, as Rust's s[i..]
Skip(s, i) == SubSeq(s, i + 1, Len(s))

\* Rust's s[a..b] for 0-based a <= b <= Len(s)
Slice(s, a, b) == SubSeq(s, a + 1, b)

RECURSIVE SeqMax(_)
SeqMax(s) == IF s = <<>> THEN 0
             ELSE LET m == SeqMax(Tail(s)) IN IF Head(s) > m THEN Head(s) ELSE m

(***************************************************************************)
(* kwp2000/constants.rs: the byte values of the enums.                     *)
(***************************************************************************)
\* ServiceId (requests)
SID_StartDiagnosticSession == 16
SID_StopDiagnosticSession == 32
SID_SecurityAccess == 39
SID_DynamicallyDefineLocalIdentifier == 44
SID_RequestDownload == 52
SID_RequestUpload == 53
SID_TransferData == 54
SID_WriteDataByLocalIdentifier == 59
SID_StopCommunication == 130
SID_AccessTimingParameter == 131

\* every value ServiceId::from_repr accepts
ServiceIdSet ==
    (1..9) \cup (16..20) \cup {23, 24, 26} \cup (32..35) \cup {38, 39, 44}
    \cup (46..59) \cup {61, 62, 63} \cup (128..131)

\* ServiceResponse (positive responses and the negative response)
SR_NegativeResponse == 127
SR_StartDiagnosticSession == 80
SR_StopDiagnosticSession == 96
SR_ReadDataByLocalIdentifier == 97
SR_ReadMemoryByAddress == 99
SR_SecurityAccess == 103
SR_DynamicallyDefineLocalIdentifier == 108
SR_RequestDownload == 116
SR_RequestUpload == 117
SR_TransferData == 118
SR_WriteDataByLocalIdentifier == 123
SR_TesterPresent == 126
SR_StopCommunication == 194
SR_AccessTimingParameter == 195

\* every value ServiceResponse::from_repr accepts
ServiceResponseSet ==
    {127, 255} \cup (65..73) \cup (80..84) \cup {87, 88, 90} \cup (96..99)
    \cup {102, 103, 108} \cup (110..123) \cup {125, 126} \cup (192..195)

\* every value ServiceError::from_repr accepts
ServiceErrorSet ==
    {17, 34, 51, 53, 54, 55, 33, 35, 49, 120, 145, 16, 18, 64, 65, 66, 67,
     80, 81, 82, 83, 113, 114, 116, 117, 118, 119, 121, 128, 144}

SE_InvalidKey == 53
SE_TooManyAttempts == 54
SE_RequestingTooFast == 55
SE_RoutineNotComplete == 35
SE_ResponsePending == 120
SE_ServiceNotSupported == 17

\* DiagnosticMode
DM_Programming == 133
DM_Diagnostics == 137
DiagnosticModeSet == {129, 131, 132, 133, 134, 137}

\* SecurityLevel::from_repr
SecurityLevelSet == 1..8

\* TimingParameter
TP_Limits == 0
TP_Defaults == 1
TP_Read == 2
TP_Set == 3

\* DynamicDefinitionMode
DDM_DefineByMemoryAddress == 3
DDM_ClearDynamicallyDefinedLocalIdentifier == 4

\* CompressionFormat / EncryptionFormat
CF_Uncompressed == 0
CF_Bosch == 16
EF_Unencrypted == 0
EF_Bosch == 1

\* data_format_byte: compression as u8 | encryption as u8 (disjoint nibbles)
data_format_byte(compression, encryption) == compression + encryption

(***************************************************************************)
(* Results of fallible code.                                               *)
(***************************************************************************)
Ok(v) == [st |-> "Ok", e |-> "", v |-> v]
Err(e) == [st |-> "Err", e |-> e, v |-> [t |-> "", b |-> <<>>]]
Panic == [st |-> "Panic", e |-> "panic", v |-> [t |-> "", b |-> <<>>]]

Rsp(t, b) == [t |-> t, b |-> b]
Msg(t, b) == [t |-> t, b |-> b]


(***************************************************************************)
(* kwp2000/mod.rs: baud rate decoding, used by from_raw.                   *)
(***************************************************************************)
Pow2(n) == CASE n = 0 -> 1 [] n = 1 -> 2 [] n = 2 -> 4 [] n = 3 -> 8
             [] n = 4 -> 16 [] n = 5 -> 32 [] n = 6 -> 64 [] n = 7 -> 128

baud_rate_from_byte(byte) ==
    LET upper == (byte \div 32) % 8
        lower == byte % 32
        pow == Pow2(upper)
    IN  (pow * (lower + 32) * 6400) \div 32

(***************************************************************************)
(* kwp2000/response.rs: typing of a raw frame.  An index past the end of   *)
(* the payload and an unwrap of None abort the program (Panic).            *)
(***************************************************************************)
\* a frame whose service byte is a request identifier (Service::Query)
IsQuery(service) == service \in ServiceIdSet

\* ProcessError::from_bytes
ProcessError_from_bytes(bytes) ==
    IF Len(bytes) < 1 THEN Panic
    ELSE IF bytes[1] \notin ServiceIdSet THEN Err("InvalidService")
    ELSE IF Len(bytes) < 2 THEN Panic
    ELSE IF bytes[2] \notin ServiceErrorSet THEN Err("InvalidServiceError")
    ELSE Ok(Rsp("ProcessError", <<bytes[1], bytes[2]>>))

\* the TransferData arm of from_raw
from_raw_TransferData(data) ==
    IF data = <<>> THEN Ok(Rsp("ReadyForMoreData", <<>>))
    ELSE Ok(Rsp("DataTransfer", data))

\* the SecurityAccess arm of from_raw
from_raw_SecurityAccess(data) ==
    IF Len(data) = 0 THEN Panic
    ELSE IF Len(data) = 2 \/ (Len(data) > 1 /\ SeqMax(Skip(data, 1)) = 0)
         THEN IF data[1] \in SecurityLevelSet
              THEN Ok(Rsp("SecurityAccessGranted", <<data[1]>>))
              ELSE Err("UnexpectedValue")
         ELSE IF data[1] \in SecurityLevelSet
              THEN Ok(Rsp("SecurityAccessSeed", data))
              ELSE Err("UnexpectedValue")

\* the NegativeResponse arm of from_raw
from_raw_NegativeResponse(data) ==
    LET error == ProcessError_from_bytes(data) IN
    IF error.st # "Ok" THEN error
    ELSE IF error.v.b[2] = SE_ResponsePending
         THEN Ok(Rsp("StillProcessing", <<error.v.b[1]>>))
         ELSE Ok(Rsp("Error", error.v.b))

\* the StartDiagnosticSession arm of from_raw
from_raw_StartDiagnosticSession(data) ==
    IF Len(data) = 0 THEN Panic
    ELSE IF data[1] \notin DiagnosticModeSet THEN Err("UnexpectedValue")
    ELSE IF Len(data) >= 2
         THEN Ok(Rsp("StartedDiagnosticMode",
                     <<data[1], baud_rate_from_byte(data[2])>>))
         ELSE Ok(Rsp("StartedDiagnosticMode", <<data[1]>>))

\* the AccessTimingParameter arm of from_raw
from_raw_AccessTimingParameter(data) ==
    IF Len(data) = 0 THEN Panic
    ELSE IF data[1] \notin {TP_Limits, TP_Defaults, TP_Read, TP_Set} THEN Panic
    ELSE IF data[1] = TP_Defaults THEN Ok(Rsp("TimingRestoredToDefault", <<>>))
    ELSE IF data[1] = TP_Set THEN Ok(Rsp("TimingSet", <<>>))
    ELSE IF Len(data) < 6 THEN Panic
    ELSE Ok(Rsp("TimingParameters", SubSeq(data, 1, 6)))

\* a one-field response built from data[0]
from_raw_First(t, data) ==
    IF Len(data) = 0 THEN Panic ELSE Ok(Rsp(t, <<data[1]>>))

from_raw(message) ==
    LET s == message.service
        data == message.data
    IN  IF IsQuery(s) THEN Ok(Rsp("Echo", <<s>> \o data))
        ELSE IF s = SR_AccessTimingParameter THEN from_raw_AccessTimingParameter(data)
        ELSE IF s = SR_ReadMemoryByAddress THEN Ok(Rsp("MemoryAddressRead", <<0>> \o data))
        ELSE IF s = SR_NegativeResponse THEN from_raw_NegativeResponse(data)
        ELSE IF s = SR_StartDiagnosticSession THEN from_raw_StartDiagnosticSession(data)
        ELSE IF s = SR_ReadDataByLocalIdentifier
             THEN IF Len(data) = 0 THEN Panic ELSE Ok(Rsp("LocalIdentifierRead", data))
        ELSE IF s = SR_TesterPresent THEN Ok(Rsp("TesterPresent", <<>>))
        ELSE IF s = SR_SecurityAccess THEN from_raw_SecurityAccess(data)
        ELSE IF s = SR_DynamicallyDefineLocalIdentifier
             THEN from_raw_First("LocalIdentifierDefined", data)
        ELSE IF s = SR_WriteDataByLocalIdentifier
             THEN from_raw_First("LocalIdentifierWritten", data)
        ELSE IF s = SR_StopCommunication THEN Ok(Rsp("CommunicationStopped", <<>>))
        ELSE IF s = SR_StopDiagnosticSession THEN Ok(Rsp("DiagnosticSessionStopped", <<>>))
        ELSE IF s = SR_RequestUpload THEN from_raw_First("UploadConfirmation", data)
        ELSE IF s = SR_RequestDownload THEN from_raw_First("DownloadConfirmation", data)
        ELSE IF s = SR_TransferData THEN from_raw_TransferData(data)
        ELSE Err("NotImplemented")


(***************************************************************************)
(* kwp2000/mod.rs: security key and baud rate encoding.  A u32 is kept as  *)
(* its four big-endian bytes.                                              *)
(***************************************************************************)
EXT_RAM_KEY == <<95, 189, 93, 189>>
LOOP_COUNT == 5

\* key << 1 on a big-endian u32
Shl1(k) == [i \in 1..4 |->
              ((k[i] * 2) % 256) + (IF i < 4 THEN k[i + 1] \div 128 ELSE 0)]

\* a round that always takes the branch of a clear top bit
KeyRound_ShiftOnly(k) == Shl1(k)


KeyRound(k) ==
    IF k[1] >= 128
    THEN LET sh == Shl1(k)
             or1 == [sh EXCEPT ![4] = sh[4] + 1]
         IN  [i \in 1..4 |-> Xor8(or1[i], EXT_RAM_KEY[i])]
    ELSE Shl1(k)

RECURSIVE KeyRounds(_, _)
KeyRounds(k, n) == IF n = 0 THEN k ELSE KeyRounds(KeyRound(k), n - 1)

\* seed: [u8; 4]; the result is the u32 key as big-endian bytes
security_key_from_seed(seed) == KeyRounds(seed, LOOP_COUNT)

\* the exp loop of baud_rate_to_byte, exp from 7 down to 0; best is the
\* record of best_scalar_distance (the fraction num / den), best_exp and
\* best_exp_result
RECURSIVE BaudExpLoop(_, _, _)
BaudExpLoop(base, exp, best) ==
    LET exp_result == Pow2(exp)
        fits == /\ exp_result < base
                /\ base < 64 * exp_result
                /\ base > 32 * exp_result
                /\ (base % exp_result) * best.den < best.num * exp_result
        nb == IF fits
              THEN [num |-> base % exp_result, den |-> exp_result,
                    best_exp |-> exp, best_exp_result |-> exp_result]
              ELSE best
    IN  IF exp = 0 THEN nb ELSE BaudExpLoop(base, exp - 1, nb)

\* baud_rate_to_byte without the exp loop: best_exp stays 0
baud_rate_to_byte_ExpZero(baud_rate, overflow_checks) ==
    IF ((baud_rate * 32) \div 6400) - 32 < 0 /\ overflow_checks THEN Panic
    ELSE Ok((((baud_rate * 32) \div 6400) - 32) % 32)

\* overflow_checks: whether the build aborts on arithmetic overflow
baud_rate_to_byte(baud_rate, overflow_checks) ==
    LET base == (baud_rate * 32) \div 6400
        best == BaudExpLoop(base, 7,
                   [num |-> 1, den |-> 1, best_exp |-> 0, best_exp_result |-> 1])
        z == (base \div best.best_exp_result) - 32
    IN  IF z < 0 /\ overflow_checks THEN Panic
        ELSE Ok(((best.best_exp % 8) * 32) + (z % 32))

(***************************************************************************)
(* kwp2000/message.rs: projection of a Message to a raw frame.             *)
(***************************************************************************)
MAX_DATA_LENGTH == 255

\* bytes[1..4] of a u32's big-endian bytes
Be24(n) == <<(n \div 65536) % 256, (n \div 256) % 256, n % 256>>

\* RawMessage::new_query: the assertion on the payload length
new_query(service, data) ==
    IF Len(data) < MAX_DATA_LENGTH
    THEN Ok([service |-> service, data |-> data])
    ELSE Panic

\* Message::SendData(block): the TransferData request carrying one block
raw_SendData(block) == new_query(SID_TransferData, block)

raw(message, overflow_checks) ==
    LET t == message.t
        b == message.b
    IN  CASE t = "ChangeTimingParameters" ->
                new_query(SID_AccessTimingParameter, <<TP_Set>> \o b)
          [] t = "GetTimingLimits" ->
                new_query(SID_AccessTimingParameter, <<TP_Limits>>)
          [] t = "RequestData" -> new_query(SID_TransferData, <<>>)
          [] t = "RequestDataTransfer" ->
                \* b = <<transfer_type, address, size, compression, encryption>>
                new_query(IF b[1] = 0 THEN SID_RequestDownload ELSE SID_RequestUpload,
                          Be24(b[2]) \o <<data_format_byte(b[4], b[5])>> \o Be24(b[3]))
          [] t = "StopDiagnosticSession" -> new_query(SID_StopDiagnosticSession, <<>>)
          [] t = "StartDiagnosticSession" ->
                \* b = <<diagnostic_mode>> or <<diagnostic_mode, baud>>
                IF Len(b) = 1 THEN new_query(SID_StartDiagnosticSession, b)
                ELSE LET byte == baud_rate_to_byte(b[2], overflow_checks) IN
                     IF byte.st = "Panic" THEN Panic
                     ELSE new_query(SID_StartDiagnosticSession, <<b[1], byte.v>>)
          [] t = "RequestSecuritySeed" -> new_query(SID_SecurityAccess, <<1>>)
          [] t = "ClearLocalIdentifier" ->
                new_query(SID_DynamicallyDefineLocalIdentifier,
                          <<b[1], DDM_ClearDynamicallyDefinedLocalIdentifier>>)
          [] t = "WriteLocalIdentifier" ->
                new_query(SID_WriteDataByLocalIdentifier, b)
          [] t = "DefineLocalIdentifierAddress" ->
                \* b = <<id, size, address>>
                new_query(SID_DynamicallyDefineLocalIdentifier,
                          <<b[1], DDM_DefineByMemoryAddress, 1, b[2]>> \o Be24(b[3]))
          [] t = "SendSecurityKey" -> new_query(SID_SecurityAccess, <<2>> \o b)
          [] t = "StopCommunication" -> new_query(SID_StopCommunication, <<>>)
          [] t = "SendData" -> raw_SendData(b)

(***************************************************************************)
(* bcb.rs: BCB Type 1 compression and the rotating XOR cipher.  Indices    *)
(* are the 0-based indices of the source; At reads data[i].                *)
(***************************************************************************)
MAX_REPEATS == 4096
MIN_REPEATS == 4
BLOCK_HEADER_SIZE == 2
\* RepeatMode
RM_NoRepeats == 0
RM_Repeating == 1

\* usize arithmetic wraps modulo this when overflow checks are off.  The
\* width is scaled down to what TLC's integers hold; only comparisons
\* with buffer lengths, all far smaller, depend on it.
UsizeModulus == 16777216

At(data, i) == data[i + 1]

\* header.to_be_bytes() for header = repeat_mode << 14 | (0x3FFF & n as u16)
BlockHeader(repeat_mode, n) ==
    LET header == (repeat_mode * 16384) + ((n % 65536) % 16384)
    IN  <<header \div 256, header % 256>>

\* the inner loop over y runs until the first y in lo..hi-1 with
\* data[y] # data[repeat_start] (break), or to hi; found by halving, so that
\* runs of thousands of bytes can be followed
RECURSIVE RunEnd(_, _, _, _)
RunEndFrom(data, repeat_start, left, mid, hi) ==
    IF left < mid THEN left ELSE RunEnd(data, repeat_start, mid, hi)

RunEnd(data, repeat_start, lo, hi) ==
    IF lo >= hi THEN hi
    ELSE IF hi = lo + 1
         THEN IF At(data, lo) = At(data, repeat_start) THEN hi ELSE lo
    ELSE RunEndFrom(data, repeat_start,
                    RunEnd(data, repeat_start, lo, (lo + hi) \div 2),
                    (lo + hi) \div 2, hi)

\* the last y the inner loop reaches before index e, odd or not
LastOdd_AnyParity(e) == e - 1

\* the last odd y the inner loop reaches before index e
LastOdd(e) ==
    IF (e - 1) % 2 = 1 THEN e - 1 ELSE e - 2

\* repeat_end is set at every odd y once y - repeat_start + 1 >= MIN_REPEATS
\* holds at one of them, so it ends as the last odd y reached, if that one
\* is far enough
RepeatEndAt(repeat_start, y, best, last) ==
    IF last >= y /\ (best >= 0 \/ last - repeat_start + 1 >= MIN_REPEATS)
    THEN last ELSE best

\* the inner loop over y: the last odd y of the run that makes it at least
\* MIN_REPEATS long, or -1 when found_repeat stays false
RepeatEnd(data, repeat_start, y, max_repeat_index, best) ==
    RepeatEndAt(repeat_start, y, best,
                LastOdd(RunEnd(data, repeat_start, y, max_repeat_index)))

\* what the outer loop leaves in found_repeat, repeat_start and repeat_end
ScanResult(st, found_repeat, repeat_start, repeat_end) ==
    [st |-> st, found_repeat |-> found_repeat,
     repeat_start |-> repeat_start, repeat_end |-> repeat_end]

\* the outer loop over x in current_index..max_index_norepeats
RECURSIVE RepeatScan(_, _, _)
RepeatFound(data, x, max_index_norepeats, e) ==
    IF e >= 0 THEN ScanResult("Ok", TRUE, x, e)
    ELSE RepeatScan(data, x + 1, max_index_norepeats)

RepeatScan(data, x, max_index_norepeats) ==
    IF x >= max_index_norepeats THEN ScanResult("Ok", FALSE, 0, 0)
    ELSE IF x + 1 >= Len(data) THEN ScanResult("Panic", FALSE, 0, 0)
    ELSE IF At(data, x) = At(data, x + 1)
         THEN RepeatFound(data, x, max_index_norepeats,
                 RepeatEnd(data, x, x + 1, Min(x + MAX_REPEATS, Len(data)), -1))
         ELSE RepeatScan(data, x + 1, max_index_norepeats)

BcbOk(n, out) == [st |-> "Ok", n |-> n, out |-> out]
BcbFail(st) == [st |-> st, n |-> 0, out |-> <<>>]

\* the literal block: header, then data[current_index..data_bytes]
LiteralBlock(data, current_index, data_bytes) ==
    IF data_bytes > 0
    THEN IF current_index > data_bytes THEN BcbFail("Panic")
         ELSE BcbOk(data_bytes,
                    BlockHeader(RM_NoRepeats, data_bytes)
                      \o Slice(data, current_index, data_bytes))
    ELSE BcbOk(0, <<>>)

\* the run block: header, then the repeated byte
RepeatBlock(data, repeat_start, repeated_bytes) ==
    BcbOk(repeated_bytes,
          BlockHeader(RM_Repeating, repeated_bytes) \o <<At(data, repeat_start)>>)

\* the part of next_bcb_block after the search for a run
EmitBlock(data, current_index, max_data_bytes, scan) ==
    IF scan.st = "Panic" THEN BcbFail("Panic")
    ELSE IF scan.found_repeat /\ scan.repeat_start = current_index
    THEN RepeatBlock(data, scan.repeat_start,
                     scan.repeat_end - scan.repeat_start + 1)
    ELSE LiteralBlock(data, current_index,
                      IF scan.found_repeat
                      THEN scan.repeat_start - current_index
                      ELSE max_data_bytes - (max_data_bytes % 2))

\* next_bcb_block with no regard for max_len
next_bcb_block_NoBudget(max_len, current_index, data) ==
    EmitBlock(data, current_index, Len(data),
              IF Len(data) > current_index + 1
              THEN RepeatScan(data, current_index, Len(data) - 1)
              ELSE ScanResult("Ok", FALSE, 0, 0))

\* returns the uncompressed byte count and the bytes written to compressed
next_bcb_block(max_len, current_index, data) ==
    EmitBlock(data, current_index,
              Min(max_len - BLOCK_HEADER_SIZE, Len(data)),
              IF Min(max_len - BLOCK_HEADER_SIZE, Len(data)) > current_index + 1
              THEN RepeatScan(data, current_index,
                              Min(max_len - BLOCK_HEADER_SIZE, Len(data)))
              ELSE ScanResult("Ok", FALSE, 0, 0))

\* the condition of the while loop of create_bcb_data
create_bcb_data_continues(data, max_len, current_index, compressed) ==
    (max_len - Len(compressed)) > 4 /\ current_index < Len(data)

\* the while loop of create_bcb_data; a block of 0 bytes leaves every loop
\* variable unchanged, so the loop never ends ("Hang")
RECURSIVE BcbLoop(_, _, _, _, _)
BcbStep(data, max_len, current_index, compressed, uncompressed_total, blk) ==
    IF blk.st # "Ok" THEN BcbFail(blk.st)
    ELSE IF blk.n = 0 THEN BcbFail("Hang")
    ELSE BcbLoop(data, max_len, current_index + blk.n,
                 compressed \o blk.out, uncompressed_total + blk.n)

BcbLoop(data, max_len, current_index, compressed, uncompressed_total) ==
    IF create_bcb_data_continues(data, max_len, current_index, compressed)
    THEN BcbStep(data, max_len, current_index, compressed, uncompressed_total,
                 next_bcb_block(max_len - Len(compressed), current_index, data))
    ELSE BcbOk(uncompressed_total, compressed)

create_bcb_data(data, max_len) == BcbLoop(data, max_len, 0, <<>>, 0)

EncOk(out, key_index) == [st |-> "Ok", out |-> out, key_index |-> key_index]
EncPanic(key_index) == [st |-> "Panic", out |-> <<>>, key_index |-> key_index]

\* one byte in front of the bytes encrypted after it
EncCons(byte, rest) ==
    [st |-> rest.st, out |-> <<byte>> \o rest.out, key_index |-> rest.key_index]

\* returns the encrypted bytes and the key_index left behind
RECURSIVE encrypt_data(_, _, _)
EncryptByte(key, data, ki, key_index) ==
    IF ki >= Len(key) THEN EncPanic(key_index)
    ELSE EncCons(Xor8(Head(data), At(key, ki)),
                 encrypt_data(key, Tail(data), ki + 1))

\* encrypt_data that never moves on in the key
RECURSIVE encrypt_data_FirstKeyByte(_, _, _)
encrypt_data_FirstKeyByte(key, data, key_index) ==
    IF data = <<>> THEN EncOk(<<>>, key_index)
    ELSE IF Len(key) = 0 THEN EncPanic(key_index)
    ELSE EncCons(Xor8(Head(data), At(key, 0)),
                 encrypt_data_FirstKeyByte(key, Tail(data), key_index))


encrypt_data(key, data, key_index) ==
    IF data = <<>> THEN EncOk(<<>>, key_index)
    ELSE EncryptByte(key, data,
                     IF key_index >= Len(key) THEN 0 ELSE key_index, key_index)

FIRST_HEADER == <<26, 1>>

BlockResult(st, n, out, key_index) ==
    [st |-> st, n |-> n, out |-> out, key_index |-> key_index]

\* the compressed block goes out encrypted
Encrypted(n, enc, key_index) ==
    IF enc.st # "Ok" THEN BlockResult(enc.st, 0, <<>>, key_index)
    ELSE BlockResult("Ok", n, enc.out, enc.key_index)

\* Compressed without the FIRST_HEADER in front of the first block
Compressed_NoHeader(c, key_index, key_, is_first) ==
    IF c.st # "Ok" THEN BlockResult(c.st, 0, <<>>, key_index)
    ELSE Encrypted(c.n, encrypt_data(key_, c.out, key_index), key_index)

\* the first block starts with FIRST_HEADER, encrypted with the rest
Compressed(c, key_index, key, is_first) ==
    IF c.st # "Ok" THEN BlockResult(c.st, 0, <<>>, key_index)
    ELSE Encrypted(c.n,
                   encrypt_data(key,
                                IF is_first THEN FIRST_HEADER \o c.out ELSE c.out,
                                key_index),
                   key_index)

\* returns st, the uncompressed length n, the block out and the key_index
encrypt_and_compress(max_len, data, key_index, key, is_first, overflow_checks) ==
    IF is_first /\ max_len < 2 /\ overflow_checks
    THEN BlockResult("Panic", 0, <<>>, key_index)
    ELSE Compressed(create_bcb_data(data,
                        IF is_first
                        THEN IF max_len >= 2 THEN max_len - 2
                             ELSE (max_len - 2) + UsizeModulus
                        ELSE max_len),
                    key_index, key, is_first)


(***************************************************************************)
(* The inputs of the model: what the callers pass in and what the channel  *)
(* can deliver to one read.                                                *)
(***************************************************************************)
Frame(service, data) == [service |-> service, data |-> data]

\* n bytes of value b
Rep(b, n) == [i \in 1..n |-> b]

\* the buffers a caller hands to write_data_bosch
DataInputs == {Rep(85, i) \o Rep(170, j) : i \in 0..MaxLiteral, j \in 0..MaxRun}

\* the ME7 key "GEHEIM"
GEHEIM == <<71, 69, 72, 69, 73, 77>>
Keys == {GEHEIM}

\* the baud_rate argument of programming_mode: None or Some(rate)
BaudOptions == {<<>>, <<10400>>, <<38400>>}

\* the last_command argument of next_response_expect_wait
LastCommands == {<<>>, <<SID_TransferData>>, <<SID_SecurityAccess>>}

\* frames the ECU (or the echo of the tester's own request) can put on the line
EcuFrames ==
    {   \* an echo: a frame with a request service
        Frame(SID_SecurityAccess, <<1>>),
        \* negative responses
        Frame(SR_NegativeResponse, <<SID_SecurityAccess, SE_TooManyAttempts>>),
        Frame(SR_NegativeResponse, <<SID_SecurityAccess, SE_RequestingTooFast>>),
        Frame(SR_NegativeResponse, <<SID_SecurityAccess, SE_InvalidKey>>),
        Frame(SR_NegativeResponse, <<SID_RequestDownload, SE_RoutineNotComplete>>),
        Frame(SR_NegativeResponse, <<SID_TransferData, SE_ResponsePending>>),
        Frame(SR_NegativeResponse, <<SID_StopDiagnosticSession, SE_ServiceNotSupported>>),
        \* security access: a seed, a granted answer, a seed of the wrong length
        Frame(SR_SecurityAccess, <<1, 18, 52, 86, 120>>),
        Frame(SR_SecurityAccess, <<2, 52>>),
        Frame(SR_SecurityAccess, <<1, 7, 7>>),
        \* dynamic local identifiers
        Frame(SR_DynamicallyDefineLocalIdentifier, <<240>>),
        Frame(SR_DynamicallyDefineLocalIdentifier, <<1>>),
        Frame(SR_WriteDataByLocalIdentifier, <<240>>),
        \* mode switching, with and without a new baud rate
        Frame(SR_StartDiagnosticSession, <<DM_Programming>>),
        Frame(SR_StartDiagnosticSession, <<DM_Programming, 20>>),
        Frame(SR_StartDiagnosticSession, <<DM_Diagnostics>>),
        Frame(SR_StartDiagnosticSession, <<DM_Diagnostics, 20>>),
        Frame(SR_StopDiagnosticSession, <<>>),
        Frame(SR_StopCommunication, <<>>),
        \* data transfer
        Frame(SR_RequestDownload, <<7>>),
        Frame(SR_RequestDownload, <<>>),
        Frame(SR_RequestUpload, <<16>>),
        Frame(SR_TransferData, <<>>),
        Frame(SR_TransferData, <<170>>),
        Frame(SR_TransferData, <<85, 170>>),
        \* timing
        Frame(SR_AccessTimingParameter, <<TP_Limits, 1, 2, 3, 4, 5>>),
        Frame(SR_AccessTimingParameter, <<TP_Read, 1, 2, 3, 4, 5>>),
        Frame(SR_AccessTimingParameter, <<TP_Set>>),
        \* a response to a request nobody made
        Frame(SR_TesterPresent, <<>>)
    }

\* the ways a read of one frame fails (next_raw_message returns Err)
ReadErrors == {"TimedOut", "Io", "InvalidChecksum", "InvalidService", "NotEnoughData"}

(***************************************************************************)
(* kwp.rs: the frame codec, RawMessage::to_bytes and RawMessage::from_bytes.*)
(***************************************************************************)
SHORT_DATA_LENGTH == 63

\* AddressMode, as u8
AM_None == 0
AM_Carb == 64
AM_Physical == 128
AM_Functional == 192
AddressModeSet == {AM_None, AM_Carb, AM_Physical, AM_Functional}

\* Service::try_from(u8) succeeds
KnownService(byte) == byte \in ServiceIdSet \cup ServiceResponseSet

\* the struct RawMessage; target and source are Options, None written <<>>
RawMessage(mode_, target, source_, service, data_) ==
    [mode |-> mode_, target |-> target, source |-> source_,
     service |-> service, data |-> data_]

\* RawMessage::new_query with all its arguments
RawMessage_new_query(mode_, target, source_, service, data_) ==
    IF Len(data_) >= MAX_DATA_LENGTH THEN Panic
    ELSE IF mode_ = AM_None /\ (target # <<>> \/ source_ # <<>>) THEN Panic
    ELSE IF mode_ # AM_None /\ (target = <<>> \/ source_ = <<>>) THEN Panic
    ELSE Ok(RawMessage(mode_, target, source_, service, data_))

\* the sum of Wrapping<u8> values
RECURSIVE WrappingSumOf(_, _, _)
WrappingSumOf(s, a, b) ==
    IF a > b THEN 0
    ELSE IF a = b THEN s[a] % 256
    ELSE (WrappingSumOf(s, a, (a + b) \div 2)
          + WrappingSumOf(s, (a + b) \div 2 + 1, b)) % 256

WrappingSum(s) == WrappingSumOf(s, 1, Len(s))

\* the format byte to_bytes pushes: only when the length fits the inline field
to_bytes_format(message, length) ==
    IF length <= SHORT_DATA_LENGTH THEN <<message.mode + length>> ELSE <<>>

\* the length byte to_bytes pushes: `length as u8`
to_bytes_length_byte(length) ==
    IF length <= SHORT_DATA_LENGTH THEN <<>> ELSE <<length % 256>>

\* to_bytes: everything before the checksum
to_bytes_body(message, length) ==
    to_bytes_format(message, length)
    \o (IF message.mode # AM_None THEN message.target \o message.source ELSE <<>>)
    \o to_bytes_length_byte(length)
    \o <<message.service>>
    \o message.data

\* to_bytes: the checksum is pushed last
to_bytes_crc(body) == Ok(body \o <<WrappingSum(body)>>)

\* RawMessage::to_bytes; target.unwrap() and source.unwrap() panic on None
to_bytes(message) ==
    IF message.mode # AM_None /\ (message.target = <<>> \/ message.source = <<>>)
    THEN Panic
    ELSE to_bytes_crc(to_bytes_body(message, 1 + Len(message.data)))

\* decode_format: the addressing mode and the inline length (0 for None)
decode_format_mode(byte) == (byte \div 64) * 64
decode_format_length(byte) == byte % 64

\* A reader: the bytes still to come and, in fail_at, which call of read
\* returns an error (0: none).  read(buf) of n bytes delivers the next
\* min(n, remaining) bytes and leaves the rest of buf as it was.
Reader(stream, fail_at) == [data |-> stream, fail_at |-> fail_at]

\* the bytes read(&mut buf[0..n]) delivers at position pos
Got(reader, pos, n) == SubSeq(reader.data, pos + 1, Min(pos + n, Len(reader.data)))

\* what from_bytes returns, with the number of bytes it took from the reader
\* and the number of payload bytes the payload read delivered
Decoded(st, e, v, d) ==
    [st |-> st, e |-> e, v |-> v, consumed |-> d.pos, payload_read |-> d.payload_read]

NoMessage == RawMessage(AM_None, <<>>, <<>>, 0, <<>>)

\* buf[i - 1] after the first reads: buf[0] and buf[1] are the only cells
\* written before the payload is read
Stale(d, i) == IF i = 1 THEN d.buf0 ELSE IF i = 2 THEN d.buf1 ELSE 0

\* dbuf after the payload read: the bytes delivered, then what buf held
PayloadBuffer(d, got) ==
    [i \in 1..(d.length - 1) |-> IF i <= Len(got) THEN got[i] ELSE Stale(d, i)]

\* calc_crc without the explicit length byte
CrcInput_NoLength(d) ==
    <<d.format>> \o d.target \o d.source \o <<d.service>> \o d.data

\* the bytes calc_crc sums
CrcInput(d) ==
    <<d.format>> \o d.target \o d.source
    \o (IF decode_format_length(d.format) # 0 THEN <<>> ELSE <<d.length>>)
    \o <<d.service>> \o d.data

\* from_bytes: the checksum read and the comparison
from_bytes_crc_got(d, got) ==
    IF (IF got = <<>> THEN d.buf0 ELSE got[1]) # WrappingSum(CrcInput(d))
    THEN Decoded("Err", "InvalidChecksum", NoMessage, [d EXCEPT !.pos = @ + Len(got)])
    ELSE Decoded("Ok", "",
                 RawMessage(decode_format_mode(d.format),
                            d.target, d.source, d.service, d.data),
                 [d EXCEPT !.pos = @ + Len(got)])

from_bytes_crc(reader, d) ==
    IF reader.fail_at = d.k THEN Decoded("Err", "Io", NoMessage, d)
    ELSE from_bytes_crc_got(d, Got(reader, d.pos, 1))

\* from_bytes: the payload read; only an error of read gives NotEnoughData
from_bytes_data_got(reader, d, got) ==
    from_bytes_crc(reader,
        [d EXCEPT !.data = PayloadBuffer(d, got),
                  !.buf0 = IF got = <<>> THEN @ ELSE got[1],
                  !.payload_read = Len(got),
                  !.pos = @ + Len(got),
                  !.k = @ + 1])

\* the payload read asking for `length` bytes, one more than the payload
from_bytes_data_WholeLength(reader, d) ==
    IF d.length > 1
    THEN from_bytes_data_got(reader, d, Got(reader, d.pos, d.length))
    ELSE from_bytes_crc(reader, d)


from_bytes_data(reader, d) ==
    IF d.length > 1
    THEN IF reader.fail_at = d.k THEN Decoded("Err", "NotEnoughData", NoMessage, d)
         ELSE from_bytes_data_got(reader, d, Got(reader, d.pos, d.length - 1))
    ELSE from_bytes_crc(reader, d)

\* from_bytes: the service byte
from_bytes_service_got(reader, d, byte, n) ==
    IF ~KnownService(byte)
    THEN Decoded("Err", "InvalidService", NoMessage, [d EXCEPT !.pos = @ + n])
    ELSE from_bytes_data(reader,
             [d EXCEPT !.service = byte, !.buf0 = byte, !.pos = @ + n, !.k = @ + 1])

from_bytes_service(reader, d) ==
    IF reader.fail_at = d.k THEN Decoded("Err", "Io", NoMessage, d)
    ELSE from_bytes_service_got(reader, d,
             IF Got(reader, d.pos, 1) = <<>> THEN d.buf0 ELSE Got(reader, d.pos, 1)[1],
             Len(Got(reader, d.pos, 1)))

\* from_bytes: the length, inline or from the length byte
from_bytes_length_got(reader, d, byte, n) ==
    from_bytes_service(reader,
        [d EXCEPT !.length = byte, !.buf0 = byte, !.pos = @ + n, !.k = @ + 1])

from_bytes_length(reader, d) ==
    IF decode_format_length(d.format) # 0
    THEN from_bytes_service(reader, [d EXCEPT !.length = decode_format_length(d.format)])
    ELSE IF reader.fail_at = d.k THEN Decoded("Err", "Io", NoMessage, d)
    ELSE from_bytes_length_got(reader, d,
             IF Got(reader, d.pos, 1) = <<>> THEN d.buf0 ELSE Got(reader, d.pos, 1)[1],
             Len(Got(reader, d.pos, 1)))

\* from_bytes: the two address bytes
from_bytes_addresses_got(reader, d, got) ==
    from_bytes_length(reader,
        [d EXCEPT !.target = <<IF Len(got) >= 1 THEN got[1] ELSE d.buf0>>,
                  !.source = <<IF Len(got) >= 2 THEN got[2] ELSE d.buf1>>,
                  !.buf0 = IF Len(got) >= 1 THEN got[1] ELSE @,
                  !.buf1 = IF Len(got) >= 2 THEN got[2] ELSE @,
                  !.pos = @ + Len(got),
                  !.k = @ + 1])

from_bytes_addresses(reader, d) ==
    IF decode_format_mode(d.format) = AM_None THEN from_bytes_length(reader, d)
    ELSE IF reader.fail_at = d.k THEN Decoded("Err", "Io", NoMessage, d)
    ELSE from_bytes_addresses_got(reader, d, Got(reader, d.pos, 2))

\* from_bytes: buf = [0; 260], then the format byte
from_bytes_format(reader, byte, n) ==
    from_bytes_addresses(reader,
        [format |-> byte, target |-> <<>>, source |-> <<>>, length |-> 0,
         service |-> 0, data |-> <<>>, buf0 |-> byte, buf1 |-> 0,
         pos |-> n, k |-> 2, payload_read |-> 0])

\* RawMessage::from_bytes
from_bytes(reader) ==
    IF reader.fail_at = 1
    THEN [st |-> "Err", e |-> "Io", v |-> NoMessage, consumed |-> 0, payload_read |-> 0]
    ELSE from_bytes_format(reader,
             IF Got(reader, 0, 1) = <<>> THEN 0 ELSE Got(reader, 0, 1)[1],
             Len(Got(reader, 0, 1)))

(***************************************************************************)
(* The frames and the byte streams the codec is applied to.                *)
(***************************************************************************)
\* payload lengths: the shortest, those around the inline limit (a length of
\* 63 is 62 payload bytes), and the longest new_query accepts
PayloadLengths ==
    (0..(Margin + 1))
    \cup ((SHORT_DATA_LENGTH - 2 - Margin)..(SHORT_DATA_LENGTH + Margin))
    \cup ((MAX_DATA_LENGTH - 1 - Margin)..(MAX_DATA_LENGTH - 1))

\* the byte a payload is filled with
Fills == {1, 237}

Payloads == {Rep(b, n) : b \in Fills, n \in PayloadLengths}

\* target and source address of an addressed frame
TARGET == 16
TESTER == 241

Addressed(mode_) == IF mode_ = AM_None THEN <<>> ELSE <<TARGET, TESTER>>

\* the frames a caller builds with new_query: every call that returns
MessageInputs ==
    {RawMessage_new_query(mode_,
                          IF mode_ = AM_None THEN <<>> ELSE <<TARGET>>,
                          IF mode_ = AM_None THEN <<>> ELSE <<TESTER>>,
                          SID_StartDiagnosticSession, payload).v :
        mode_ \in AddressModeSet, payload \in Payloads}

\* service bytes on the wire: a request, a response, and an unknown byte
UNKNOWN_SERVICE == 0
WireServices == {SID_StartDiagnosticSession, SR_StopCommunication, UNKNOWN_SERVICE}

\* the bytes of a frame before its checksum, as from_bytes reads them; with
\* explicit the inline length is 0 and a length byte follows the addresses
WireBody(mode_, explicit, service, payload) ==
    <<mode_ + (IF explicit THEN 0 ELSE 1 + Len(payload))>>
    \o Addressed(mode_)
    \o (IF explicit THEN <<1 + Len(payload)>> ELSE <<>>)
    \o <<service>>
    \o payload

\* a frame on the wire whose checksum is off by delta
Wire(body, delta) == body \o <<(WrappingSum(body) + delta) % 256>>

\* the payloads a frame with or without a length byte can carry
PayloadsFor(explicit) ==
    {p \in Payloads : Len(p) >= SHORT_DATA_LENGTH => explicit}

WireBodiesOf(explicit) ==
    {WireBody(mode_, explicit, service, payload) :
        mode_ \in AddressModeSet, service \in WireServices,
        payload \in PayloadsFor(explicit)}

WireBodies == WireBodiesOf(TRUE) \cup WireBodiesOf(FALSE)

\* a frame whose length byte is 0: no service byte is announced
ZeroLengthBodies ==
    {<<mode_>> \o Addressed(mode_) \o <<0>> : mode_ \in AddressModeSet}

\* whole frames, with a right or a wrong checksum, alone or followed by the
\* first byte of the next frame
WholeStreams ==
    {Wire(body, delta) \o next :
        body \in WireBodies \cup ZeroLengthBodies,
        delta \in {0, 1}, next \in {<<>>, <<170>>, <<16, 170>>}}

\* frames the stream ends in: the first bytes only, or all but the last
CutLengths(n) == {k \in 0..(n - 1) : k <= Margin + 2 \/ k >= n - Margin - 1}

CutStreams ==
    UNION {{SubSeq(Wire(body, 0), 1, k) : k \in CutLengths(Len(body) + 1)} :
              body \in WireBodies}

\* the most calls of read from_bytes makes
MAX_READS == 6

StreamInputs ==
    {Reader(s, 0) : s \in WholeStreams \cup CutStreams}
    \cup {Reader(Wire(body, 0), k) : body \in WireBodies, k \in 1..MAX_READS}

(***************************************************************************)
(* The state.                                                              *)
(***************************************************************************)
VARIABLES
    mode,          \* the client's tracked mode (the type parameter M)
    security,      \* the client's tracked security (the type parameter S)
    op,            \* the operation the caller has started, or "idle"
    fn,            \* the function of the client now executing
    step,          \* which request of fn awaits its response
    pc,            \* "idle", "read" (inside next_response), "handle",
                   \* "panicked" or "hung"
    retried,       \* security_access_timeout_bypass: the bypass has run
    last_command,  \* the argument of next_response_expect_wait
    resp,          \* what next_response returned last
    result,        \* what the last finished operation returned
    io,            \* the channel events of the current operation, in order
    skips,         \* frames the current operation has passed over
    args,          \* the arguments of the operation, as numbers
    entry,         \* the (mode, security) the client had at the call
    data,          \* write_data_bosch: the buffer
    key,           \* write_data_bosch: the cipher key
    enc_index,     \* write_data_bosch: the cipher cursor
    max_len,       \* write_data_bosch: the block maximum the ECU reported
    sent_bytes,    \* write_data_bosch: uncompressed bytes sent so far
    m,             \* write_data_bosch: the response being processed
    written,       \* read_data: bytes counted so far
    destination    \* read_data: the bytes written to the destination

download == <<data, key, enc_index, max_len, sent_bytes, m>>
upload == <<written, destination>>
client == <<mode, security, op, fn, step, pc, retried, last_command, resp, result,
            io, skips, args, entry, data, key, enc_index, max_len, sent_bytes, m,
            written, destination>>

\* the frame codec on its own: what it is applied to and what it returned
VARIABLES
    raw_message,   \* the RawMessage to encode, or the one decoded last
    bytes,         \* what to_bytes returned
    source,        \* the reader from_bytes was applied to
    decoded,       \* what from_bytes returned
    calls          \* the functions applied so far, in order

codec == <<raw_message, bytes, source, decoded, calls>>

\* create_bcb_data on its own: its arguments, its locals, and where it is
VARIABLES
    bcb_data,            \* the argument data
    bcb_max_len,         \* the argument max_len
    current_index,       \* the local current_index
    compressed,          \* the local compressed
    uncompressed_total,  \* the local uncompressed_total
    bcb_pc               \* "idle", "loop", "returned", "panicked" or "hung"

bcb == <<bcb_data, bcb_max_len, current_index, compressed, uncompressed_total, bcb_pc>>

\* the functions of mod.rs, message.rs and bcb.rs that are applied on their
\* own: which one, to what, how often, and what the last call returned
VARIABLES
    f_name,     \* the function applied, "" when none is
    f_input,    \* its arguments
    f_output,   \* what the last call returned
    f_step      \* the number of calls made so far

fns == <<f_name, f_input, f_output, f_step>>

\* k_line.rs: one call of send_init_5baud or init_kwp2000
VARIABLES
    kl_op,       \* the function called, "" when none is
    kl_address,  \* the argument address
    kl_pc,       \* the statement the call is at
    kl_n,        \* the n of bitbang's iterator
    kl_line,     \* the calls of set_low, set_high, read_byte and write_byte that succeeded, in order
    kl_result    \* "" while it runs, then "Ok" or "Err"

k_line == <<kl_op, kl_address, kl_pc, kl_n, kl_line, kl_result>>

pure == <<codec, bcb, fns, k_line>>
vars == <<client, pure>>

NoRsp == Rsp("", <<>>)
NoResult == [op |-> "", st |-> "", e |-> "", n |-> 0]

\* channel events
EvWrite(message) == [k |-> "w", t |-> message.t, b |-> message.b]
EvWriteFailed(message) == [k |-> "wfail", t |-> message.t, b |-> message.b]
EvRead(frame) == [k |-> "r", t |-> "Frame", b |-> <<frame.service>> \o frame.data]
EvReadFailed(e) == [k |-> "r", t |-> e, b |-> <<>>]
EvBaud(baud) == [k |-> "b", t |-> "switch_baud", b |-> <<baud>>]
EvBaudFailed(baud) == [k |-> "b", t |-> "switch_baud_failed", b |-> <<baud>>]

\* Client::new
Client_new ==
    /\ mode = "UnknownMode"
    /\ security = "WithoutSecurity"
    /\ op = "idle" /\ fn = "idle" /\ step = 0 /\ pc = "idle"
    /\ retried = FALSE
    /\ last_command = <<>>
    /\ resp = Ok(NoRsp)
    /\ result = NoResult
    /\ io = <<>>
    /\ skips = 0
    /\ args = <<>>
    /\ entry = <<"UnknownMode", "WithoutSecurity">>
    /\ data = <<>> /\ key = <<>> /\ enc_index = 0 /\ max_len = 0
    /\ sent_bytes = 0 /\ m = NoRsp
    /\ written = 0 /\ destination = <<>>

\* the frame codec has not been applied
NoReader == Reader(<<>>, 0)
NoDecoded == [st |-> "", e |-> "", v |-> NoMessage, consumed |-> 0, payload_read |-> 0]
NoBytes == [st |-> "", e |-> "", v |-> <<>>]

CodecIdle ==
    /\ raw_message = NoMessage
    /\ bytes = NoBytes
    /\ source = NoReader
    /\ decoded = NoDecoded
    /\ calls = <<>>

\* create_bcb_data has not been called
BcbIdle ==
    /\ bcb_data = <<>> /\ bcb_max_len = 0
    /\ current_index = 0 /\ compressed = <<>> /\ uncompressed_total = 0
    /\ bcb_pc = "idle"

\* no function is applied on its own
NoInput == [t |-> ""]
NoOutput == [st |-> ""]
FnIdle == f_name = "" /\ f_input = NoInput /\ f_output = NoOutput /\ f_step = 0

\* no initialisation of the K-line is going on
KLineIdle ==
    /\ kl_op = "" /\ kl_address = 0 /\ kl_pc = "idle" /\ kl_n = 0
    /\ kl_line = <<>> /\ kl_result = ""

\* Client::new, with nothing handed to the frame codec or to the compressor
Init == Client_new /\ CodecIdle /\ BcbIdle /\ FnIdle /\ KLineIdle

(***************************************************************************)
(* How a function of the client ends or goes on.                           *)
(***************************************************************************)
\* the operation returns to its caller
Finish(st, e, n, newMode, newSecurity, newIo) ==
    /\ op' = "idle" /\ fn' = "idle" /\ step' = 0 /\ pc' = "idle"
    /\ result' = [op |-> op, st |-> st, e |-> e, n |-> n]
    /\ mode' = newMode /\ security' = newSecurity
    /\ io' = newIo

\* Err((client, e)) or Err(e): the client keeps the state it had
FinishErr(e, newIo) == Finish("Err", e, 0, mode, security, newIo)

\* the program aborts
DoPanic(newIo) ==
    /\ pc' = "panicked"
    /\ result' = [op |-> op, st |-> "Panic", e |-> "panic", n |-> 0]
    /\ io' = newIo
    /\ UNCHANGED <<op, fn, step, mode, security>>

\* the program loops forever without touching the channel
DoHang(newIo) ==
    /\ pc' = "hung"
    /\ result' = [op |-> op, st |-> "Hang", e |-> "", n |-> 0]
    /\ io' = newIo
    /\ UNCHANGED <<op, fn, step, mode, security>>

\* function f goes on to wait for the response to its request number s
Await(f, s, newIo) ==
    /\ fn' = f /\ step' = s /\ pc' = "read"
    /\ io' = newIo
    /\ UNCHANGED <<op, result, mode, security>>

\* interface.send(message)? followed by next_response() in function f: the
\* projection may abort, the write may fail
Send(message, f, s, baseIo) ==
    \E wok \in BOOLEAN, overflow_checks \in BOOLEAN :
        IF raw(message, overflow_checks).st = "Panic" THEN DoPanic(baseIo)
        ELSE IF wok THEN Await(f, s, Append(baseIo, EvWrite(message)))
        ELSE FinishErr("Io", Append(baseIo, EvWriteFailed(message)))


(***************************************************************************)
(* The caller starts an operation.  The type parameters of Client<M, S>    *)
(* decide which operations exist in which tracked state.                   *)
(***************************************************************************)
\* memory addresses the caller asks for
Addresses == {8388608}
\* upload sizes the caller asks for
Sizes == {40}

\* name: the operation; f: the function that runs first; p: where it starts;
\* a: the arguments; lc: the last_command handed to next_response_expect_wait
\* (None, written <<>>, for every next_response() of the client).  What the
\* previous operation left behind is dropped: only the client is kept.
Call(name, f, p, a, lc) ==
    /\ pc = "idle"
    /\ UNCHANGED pure
    /\ op' = name /\ fn' = f /\ step' = 0 /\ pc' = p
    /\ args' = a
    /\ entry' = <<mode, security>>
    /\ last_command' = lc
    /\ retried' = FALSE
    /\ resp' = Ok(NoRsp)
    /\ result' = NoResult
    /\ io' = <<>>
    /\ skips' = 0
    /\ enc_index' = 0 /\ max_len' = 0 /\ sent_bytes' = 0 /\ m' = NoRsp
    /\ written' = 0 /\ destination' = <<>>
    /\ UNCHANGED <<mode, security>>

\* no buffer and no key: the operation is not a download
NoDownload == data' = <<>> /\ key' = <<>>

\* programming_mode(baud_rate) = switch_mode(DiagnosticMode::Programming, baud_rate)
Call_programming_mode ==
    /\ \E baud_rate \in BaudOptions :
          Call("programming_mode", "switch_mode", "start",
               <<DM_Programming>> \o baud_rate, <<>>)
    /\ NoDownload

Call_disconnect ==
    /\ Call("disconnect", "disconnect", "start", <<>>, <<>>)
    /\ NoDownload

Call_get_security_access ==
    /\ Call("get_security_access", "get_security_access", "start", <<>>, <<>>)
    /\ NoDownload

Call_security_access_timeout_bypass ==
    /\ Call("security_access_timeout_bypass", "get_security_access", "start",
            <<>>, <<>>)
    /\ NoDownload

Call_clear_security_wait ==
    /\ Call("clear_security_wait", "clear_security_wait", "start", <<>>, <<>>)
    /\ NoDownload

\* impl Client<ProgrammingMode, WithSecurity>
Call_read_data ==
    /\ mode = "ProgrammingMode" /\ security = "WithSecurity"
    /\ \E address \in Addresses, size \in Sizes :
          Call("read_data", "read_data", "start", <<address, size>>, <<>>)
    /\ NoDownload

\* write_data_bosch on a Client<M, S> of any M and S
Call_write_data_bosch_AnyState ==
    /\ \E address \in Addresses :
          Call("write_data_bosch", "write_data_bosch", "start", <<address>>, <<>>)
    /\ data' \in DataInputs
    /\ key' \in Keys

\* impl<M: WriteDataBosch> Client<M, WithSecurity>
Call_write_data_bosch ==
    /\ mode \in {"ProgrammingMode", "DeveloperMode"} /\ security = "WithSecurity"
    /\ \E address \in Addresses :
          Call("write_data_bosch", "write_data_bosch", "start", <<address>>, <<>>)
    /\ data' \in DataInputs
    /\ key' \in Keys

\* impl<M: AccessTiming> Client<M, WithoutSecurity>
Call_use_fastest_timing ==
    /\ mode \in {"ProgrammingMode", "DeveloperMode"} /\ security = "WithoutSecurity"
    /\ Call("use_fastest_timing", "use_fastest_timing", "start", <<>>, <<>>)
    /\ NoDownload

\* the caller reads the interface itself: client.interface is a public field
Call_next_response_expect_wait ==
    /\ \E lc \in LastCommands :
          Call("next_response_expect_wait", "next_response_expect_wait", "read",
               <<>>, lc)
    /\ NoDownload

(***************************************************************************)
(* kwp2000/mod.rs: one turn of the loop of next_response_expect_wait, that *)
(* is one call of next_raw_message and the typing of what it returned.     *)
(***************************************************************************)
IsRead(ev, service) ==
    ev.k = "r" /\ ev.t = "Frame" /\ ev.b[1] = service

\* frames the current upload has gone on after
UploadFrames ==
    Cardinality({i \in DOMAIN io :
                    \/ IsRead(io[i], SR_RequestUpload)
                    \/ IsRead(io[i], SR_TransferData) /\ Len(io[i].b) > 1})

\* frames the current download has gone on after
DownloadFrames ==
    Cardinality({i \in DOMAIN io :
                    \/ IsRead(io[i], SR_RequestDownload)
                    \/ IsRead(io[i], SR_TransferData) /\ Len(io[i].b) = 1})

RoutineNotComplete ==
    Rsp("Error", <<SID_RequestDownload, SE_RoutineNotComplete>>)

\* next_response goes on to its caller with value r
Deliver(r, newIo) ==
    /\ resp' = r
    /\ pc' = "handle"
    /\ io' = newIo
    /\ UNCHANGED <<op, fn, step, result, mode, security, skips>>

\* the match with no arm for Echo and StillProcessing: every typed response
\* goes to the caller
next_response_expect_wait_NoSkip(r, newIo) ==
    IF r.st = "Panic" THEN DoPanic(newIo) /\ UNCHANGED <<resp, skips>>
    ELSE Deliver(r, newIo)

\* the match with a retry cap of zero: a frame to pass over ends the call
next_response_expect_wait_Capped(r, newIo) ==
    IF r.st = "Panic" THEN DoPanic(newIo) /\ UNCHANGED <<resp, skips>>
    ELSE IF r.st = "Err" THEN Deliver(r, newIo)
    ELSE IF r.v.t \in {"Echo", "StillProcessing"}
         THEN Deliver(Err("TimedOut"), newIo)
    ELSE Deliver(r, newIo)

\* the match that passes over every StillProcessing, whatever its service
next_response_expect_wait_AnyPending(r, newIo) ==
    IF r.st = "Panic" THEN DoPanic(newIo) /\ UNCHANGED <<resp, skips>>
    ELSE IF r.st = "Err" THEN Deliver(r, newIo)
    ELSE IF r.v.t \in {"Echo", "StillProcessing"}
         THEN /\ skips < MaxSkips
              /\ skips' = skips + 1
              /\ io' = newIo
              /\ UNCHANGED <<op, fn, step, pc, result, mode, security, resp>>
    ELSE Deliver(r, newIo)

\* the match on the typed response in next_response_expect_wait
next_response_expect_wait(r, newIo) ==
    IF r.st = "Panic" THEN DoPanic(newIo) /\ UNCHANGED <<resp, skips>>
    ELSE IF r.st = "Err" THEN Deliver(r, newIo)
    ELSE IF \/ r.v.t = "Echo"
            \/ /\ r.v.t = "StillProcessing"
               /\ (last_command = <<>> \/ last_command = <<r.v.b[1]>>)
         THEN \* continue: read the next frame
              /\ skips < MaxSkips
              /\ skips' = skips + 1
              /\ io' = newIo
              /\ UNCHANGED <<op, fn, step, pc, result, mode, security, resp>>
    ELSE IF r.v.t = "StillProcessing" THEN Deliver(Err("UnexpectedPending"), newIo)
    ELSE IF fn = "write_data_bosch" /\ r.v = RoutineNotComplete
         THEN \* a response the download loop passes over: counted as a skip
              /\ skips < MaxSkips
              /\ skips' = skips + 1
              /\ resp' = r /\ pc' = "handle" /\ io' = newIo
              /\ UNCHANGED <<op, fn, step, result, mode, security>>
    ELSE /\ ((fn = "read_data" /\ r.v.t \in {"DataTransfer", "UploadConfirmation"})
               => UploadFrames < MaxUploadFrames)
         /\ ((fn = "write_data_bosch"
                 /\ r.v.t \in {"DownloadConfirmation", "ReadyForMoreData"})
               => DownloadFrames < MaxDownloadFrames)
         /\ Deliver(r, newIo)

\* the services the current operation has sent a request of
Requested ==
    {raw(Msg(io[i].t, io[i].b), FALSE).v.service :
        i \in {j \in DOMAIN io : io[j].k = "w"}}

\* the request a response frame answers
AnswerTo(frame) ==
    IF frame.service = SR_NegativeResponse THEN frame.data[1]
    ELSE frame.service - 64

\* the echo of the request written last: the line is half-duplex
LastEcho ==
    LET w == {j \in DOMAIN io : io[j].k = "w"} IN
    IF w = {} THEN {}
    ELSE LET last == CHOOSE j \in w : \A i \in w : i <= j
         IN  {raw(Msg(io[last].t, io[last].b), FALSE).v}

\* what one read can deliver: inside an operation of the client, the echo of
\* its last request, the frames that answer a request it has made, and the
\* one frame that answers none; every frame when the caller reads directly
Offered ==
    IF op = "next_response_expect_wait" THEN EcuFrames
    ELSE LastEcho
         \cup {f \in EcuFrames : ~IsQuery(f.service) /\ AnswerTo(f) \in Requested}
         \cup {Frame(SR_TesterPresent, <<>>)}

NextRawMessage ==
    /\ pc = "read"
    /\ UNCHANGED pure
    /\ \/ \E frame \in Offered :
             next_response_expect_wait(from_raw(frame), Append(io, EvRead(frame)))
       \/ \E e \in ReadErrors :
             Deliver(Err(e), Append(io, EvReadFailed(e)))
    /\ UNCHANGED <<retried, last_command, args, entry, download, upload>>

\* next_response_expect_wait hands its result to the caller
Return_next_response_expect_wait ==
    /\ fn = "next_response_expect_wait" /\ pc = "handle"
    /\ UNCHANGED pure
    /\ Finish(resp.st, resp.e, 0, mode, security, io)
    /\ UNCHANGED <<retried, last_command, resp, skips, args, entry, download, upload>>


(***************************************************************************)
(* kwp2000/client.rs: the functions of the client, each from one call of   *)
(* next_response to the next.                                              *)
(***************************************************************************)
rest == <<retried, last_command, resp, skips, args, entry, download, upload>>

\* the fall-through arm of message_chain!
UnexpectedResponse == FinishErr("UnexpectedResponse", io)

\* the dynamically defined local identifier and the lockout counter it aliases
LOCKOUT_ID == 240
LOCKOUT_LEN == 2
LOCKOUT_ADDRESS == 3673512

\* a chain that waits for less: any identifier confirms
clear_security_wait_confirms_AnyId(s, r) ==
    \/ s \in {1, 2} /\ r.t = "LocalIdentifierDefined"
    \/ s = 3 /\ r.t = "LocalIdentifierWritten"

\* the response pattern of the message_chain! arm of request number s
clear_security_wait_confirms(s, r) ==
    \/ s \in {1, 2} /\ r = Rsp("LocalIdentifierDefined", <<LOCKOUT_ID>>)
    \/ s = 3 /\ r = Rsp("LocalIdentifierWritten", <<LOCKOUT_ID>>)

clear_security_wait ==
    /\ fn = "clear_security_wait"
    /\ UNCHANGED pure
    /\ \/ /\ pc = "start"
          /\ Send(Msg("ClearLocalIdentifier", <<LOCKOUT_ID>>),
                  "clear_security_wait", 1, io)
       \/ /\ pc = "handle"
          /\ IF resp.st = "Err" THEN FinishErr(resp.e, io)
             ELSE IF ~clear_security_wait_confirms(step, resp.v)
             THEN UnexpectedResponse
             ELSE IF step = 1
             THEN Send(Msg("DefineLocalIdentifierAddress",
                           <<LOCKOUT_ID, LOCKOUT_LEN, LOCKOUT_ADDRESS>>),
                       "clear_security_wait", 2, io)
             ELSE IF step = 2
             THEN Send(Msg("WriteLocalIdentifier", <<LOCKOUT_ID, 0, 0>>),
                       "clear_security_wait", 3, io)
             ELSE \* return Ok(self)
                  IF op = "security_access_timeout_bypass"
                  THEN \* c.clear_security_wait()?.get_security_access()
                       Send(Msg("RequestSecuritySeed", <<>>),
                            "get_security_access", 1, io)
                  ELSE Finish("Ok", "", 0, mode, security, io)
    /\ UNCHANGED rest

IsLockout(r) ==
    /\ r.t = "Error"
    /\ r.b[1] = SID_SecurityAccess
    /\ r.b[2] \in {SE_TooManyAttempts, SE_RequestingTooFast}

\* a bypass that does not remember it has run
get_security_access_Err_Again(e) ==
    IF op = "security_access_timeout_bypass" /\ e = "SecurityTimout"
    THEN /\ retried' = TRUE
         /\ Send(Msg("ClearLocalIdentifier", <<LOCKOUT_ID>>),
                 "clear_security_wait", 1, io)
    ELSE /\ FinishErr(e, io)
         /\ UNCHANGED retried

\* get_security_access returns Err((self, e)); inside
\* security_access_timeout_bypass the first SecurityTimout starts the bypass
get_security_access_Err(e) ==
    IF op = "security_access_timeout_bypass" /\ ~retried /\ e = "SecurityTimout"
    THEN /\ retried' = TRUE
         /\ Send(Msg("ClearLocalIdentifier", <<LOCKOUT_ID>>),
                 "clear_security_wait", 1, io)
    ELSE /\ FinishErr(e, io)
         /\ UNCHANGED retried

\* the arms of the message_chain! of get_security_access
get_security_access_arms ==
    IF resp.st = "Err" THEN get_security_access_Err(resp.e)
    ELSE IF step = 1 /\ resp.v.t = "SecurityAccessSeed"
    THEN \* seed.to_vec().try_into().unwrap() into [u8; 4]
         LET seed == Skip(resp.v.b, 1) IN
         IF Len(seed) # 4 THEN DoPanic(io) /\ UNCHANGED retried
         ELSE /\ Send(Msg("SendSecurityKey", security_key_from_seed(seed)),
                      "get_security_access", 2, io)
              /\ UNCHANGED retried
    ELSE IF resp.v.t = "SecurityAccessGranted"
    THEN /\ Finish("Ok", "", 0, mode, "WithSecurity", io)
         /\ UNCHANGED retried
    ELSE IF step = 2 /\ IsLockout(resp.v)
    THEN get_security_access_Err("SecurityTimout")
    ELSE get_security_access_Err("UnexpectedResponse")

get_security_access ==
    /\ fn = "get_security_access"
    /\ UNCHANGED pure
    /\ \/ /\ pc = "start"
          /\ Send(Msg("RequestSecuritySeed", <<>>), "get_security_access", 1, io)
          /\ UNCHANGED retried
       \/ /\ pc = "handle"
          /\ get_security_access_arms
    /\ UNCHANGED <<last_command, resp, skips, args, entry, download, upload>>

\* a result that moves the client to the target mode whatever was started
switch_mode_result_Moves(started, newIo) ==
    IF started = args[1]
    THEN Finish("Ok", "", 0, "ProgrammingMode", "WithoutSecurity", newIo)
    ELSE Finish("Err", "UnexpectedMode", 0, "ProgrammingMode", "WithoutSecurity",
                newIo)

\* a result that keeps the security the client had
switch_mode_result_KeepsSecurity(started, newIo) ==
    IF started = args[1]
    THEN Finish("Ok", "", 0, "ProgrammingMode", security, newIo)
    ELSE FinishErr("UnexpectedMode", newIo)

\* `if mode == new_mode { Ok(self.with_state()) } else { Err(UnexpectedMode) }`
switch_mode_result(started, newIo) ==
    IF started = args[1]
    THEN Finish("Ok", "", 0, "ProgrammingMode", "WithoutSecurity", newIo)
    ELSE FinishErr("UnexpectedMode", newIo)

\* an arm that compares the mode before it switches the baud rate
switch_mode_started_ModeFirst(started, new_baud) ==
    IF started # args[1] THEN FinishErr("UnexpectedMode", io)
    ELSE IF new_baud # <<>>
    THEN \E bok \in BOOLEAN :
            IF bok THEN switch_mode_result(started, Append(io, EvBaud(new_baud[1])))
            ELSE FinishErr("SerialPort", Append(io, EvBaudFailed(new_baud[1])))
    ELSE switch_mode_result(started, io)

\* the arm of Response::StartedDiagnosticMode(mode, new_baud)
switch_mode_started(started, new_baud) ==
    IF new_baud # <<>>
    THEN \E bok \in BOOLEAN :
            IF bok THEN switch_mode_result(started, Append(io, EvBaud(new_baud[1])))
            ELSE FinishErr("SerialPort", Append(io, EvBaudFailed(new_baud[1])))
    ELSE switch_mode_result(started, io)

\* switch_mode(new_mode, baud_rate), args = <<new_mode>> \o baud_rate
switch_mode ==
    /\ fn = "switch_mode"
    /\ UNCHANGED pure
    /\ \/ /\ pc = "start"
          /\ Send(Msg("StartDiagnosticSession", args), "switch_mode", 1, io)
       \/ /\ pc = "handle"
          /\ IF resp.st = "Err" THEN FinishErr(resp.e, io)
             ELSE IF resp.v.t = "StartedDiagnosticMode"
             THEN switch_mode_started(resp.v.b[1], Skip(resp.v.b, 1))
             ELSE UnexpectedResponse
    /\ UNCHANGED rest

\* disconnect without the arm `Response::Error(_) => {}`
disconnect_ErrorAborts ==
    /\ fn = "disconnect"
    /\ UNCHANGED pure
    /\ \/ /\ pc = "start"
          /\ Send(Msg("StopDiagnosticSession", <<>>), "disconnect", 1, io)
       \/ /\ pc = "handle"
          /\ IF resp.st = "Err" THEN FinishErr(resp.e, io)
             ELSE IF step = 1 /\ resp.v.t = "DiagnosticSessionStopped"
             THEN Send(Msg("StopCommunication", <<>>), "disconnect", 2, io)
             ELSE IF step = 2 /\ resp.v.t = "CommunicationStopped"
             THEN Finish("Ok", "", 0, "Disconnected", "WithoutSecurity", io)
             ELSE UnexpectedResponse
    /\ UNCHANGED rest


disconnect ==
    /\ fn = "disconnect"
    /\ UNCHANGED pure
    /\ \/ /\ pc = "start"
          /\ Send(Msg("StopDiagnosticSession", <<>>), "disconnect", 1, io)
       \/ /\ pc = "handle"
          /\ IF resp.st = "Err" THEN FinishErr(resp.e, io)
             ELSE IF step = 1 /\ resp.v.t \in {"DiagnosticSessionStopped", "Error"}
             THEN Send(Msg("StopCommunication", <<>>), "disconnect", 2, io)
             ELSE IF step = 2 /\ resp.v.t = "CommunicationStopped"
             THEN Finish("Ok", "", 0, "Disconnected", "WithoutSecurity", io)
             ELSE UnexpectedResponse
    /\ UNCHANGED rest

\* use_fastest_timing without the pattern `kind: TimingParameter::Limits`
use_fastest_timing_AnyKind ==
    /\ fn = "use_fastest_timing"
    /\ UNCHANGED pure
    /\ \/ /\ pc = "start"
          /\ Send(Msg("GetTimingLimits", <<>>), "use_fastest_timing", 1, io)
       \/ /\ pc = "handle"
          /\ IF resp.st = "Err" THEN FinishErr(resp.e, io)
             ELSE IF step = 1 /\ resp.v.t = "TimingParameters"
             THEN Send(Msg("ChangeTimingParameters", Skip(resp.v.b, 1)),
                       "use_fastest_timing", 2, io)
             ELSE IF step = 2 /\ resp.v.t = "TimingSet"
             THEN Finish("Ok", "", 0, mode, security, io)
             ELSE UnexpectedResponse
    /\ UNCHANGED rest


use_fastest_timing ==
    /\ fn = "use_fastest_timing"
    /\ UNCHANGED pure
    /\ \/ /\ pc = "start"
          /\ Send(Msg("GetTimingLimits", <<>>), "use_fastest_timing", 1, io)
       \/ /\ pc = "handle"
          /\ IF resp.st = "Err" THEN FinishErr(resp.e, io)
             ELSE IF /\ step = 1
                     /\ resp.v.t = "TimingParameters"
                     /\ resp.v.b[1] = TP_Limits
             THEN Send(Msg("ChangeTimingParameters", Skip(resp.v.b, 1)),
                       "use_fastest_timing", 2, io)
             ELSE IF step = 2 /\ resp.v.t = "TimingSet"
             THEN Finish("Ok", "", 0, mode, security, io)
             ELSE UnexpectedResponse
    /\ UNCHANGED rest


\* TransferType
TT_Download == 0
TT_Upload == 1

\* read_data(address, size, destination), args = <<address, size>>
read_data ==
    /\ fn = "read_data"
    /\ UNCHANGED pure
    /\ \/ /\ pc = "start"
          /\ written' = 0
          /\ destination' = <<>>
          /\ Send(Msg("RequestDataTransfer",
                      <<TT_Upload, args[1], args[2], CF_Uncompressed, EF_Unencrypted>>),
                  "read_data", 1, io)
       \/ /\ pc = "handle"
          /\ IF resp.st = "Err"
             THEN \* while let Ok(m) = ... ends the loop; return Ok(written)
                  /\ Finish("Ok", "", written, mode, security, io)
                  /\ UNCHANGED upload
             ELSE IF resp.v.t = "UploadConfirmation"
             THEN /\ Send(Msg("RequestData", <<>>), "read_data", 1, io)
                  /\ UNCHANGED upload
             ELSE IF resp.v.t = "DataTransfer"
             THEN LET d == resp.v.b IN
                  IF d # <<>>
                  THEN /\ written' = written + Len(d)
                       /\ \E dok \in BOOLEAN :
                             IF dok
                             THEN /\ destination' = destination \o d
                                  /\ Send(Msg("RequestData", <<>>), "read_data", 1, io)
                             ELSE /\ destination' = destination
                                  /\ FinishErr("Io", io)
                  ELSE \* break; return Ok(written)
                       /\ Finish("Ok", "", written, mode, security, io)
                       /\ UNCHANGED upload
             ELSE UnexpectedResponse /\ UNCHANGED upload
    /\ UNCHANGED <<retried, last_command, resp, skips, args, entry, download>>

\* lines 194-202 of write_data_bosch: what is returned once the loop is left
\* with `response` holding the last result of next_response
write_data_bosch_exit(response, newIo) ==
    IF response.st = "Err" /\ response.e # "TimedOut"
    THEN FinishErr(response.e, newIo)
    ELSE Finish("Ok", "", 0, mode, security, newIo)

\* `while let Ok(m) = response`, followed by the read-ahead
\* `response = self.interface.next_response()` when the loop goes on
write_data_bosch_loop(response, newIo) ==
    IF response.st = "Ok"
    THEN /\ m' = response.v
         /\ Await("write_data_bosch", 1, newIo)
    ELSE /\ m' = m
         /\ write_data_bosch_exit(response, newIo)

\* `self.interface.send(Message::SendData(data))` and what follows it
write_data_bosch_send(response, r, message, wok, overflow_checks) ==
    IF r.st = "Panic"
    THEN DoPanic(io) /\ UNCHANGED <<enc_index, sent_bytes, m>>
    ELSE IF r.st = "Hang"
    THEN DoHang(io) /\ UNCHANGED <<enc_index, sent_bytes, m>>
    ELSE /\ enc_index' = r.key_index
         /\ IF raw(message, overflow_checks).st = "Panic"
            THEN DoPanic(io) /\ UNCHANGED <<sent_bytes, m>>
            ELSE IF ~wok
            THEN /\ FinishErr("Io", Append(io, EvWriteFailed(message)))
                 /\ UNCHANGED <<sent_bytes, m>>
            ELSE /\ sent_bytes' = sent_bytes + r.n
                 /\ write_data_bosch_loop(response, Append(io, EvWrite(message)))

\* the arm of DownloadConfirmation (first) and of ReadyForMoreData
write_data_bosch_block(response, first, ml) ==
    /\ max_len' = ml
    /\ IF sent_bytes >= Len(data)
       THEN \* break
            /\ write_data_bosch_exit(response, io)
            /\ UNCHANGED <<enc_index, sent_bytes, m>>
       ELSE \E wok \in BOOLEAN, overflow_checks \in BOOLEAN :
            \E r \in {encrypt_and_compress(ml, Skip(data, sent_bytes), enc_index,
                                           key, first, overflow_checks)} :
               write_data_bosch_send(response, r, Msg("SendData", r.out),
                                     wok, overflow_checks)

\* the body of the loop for the response m, `response` being the read-ahead
write_data_bosch_body(response) ==
    IF m.t \in {"DownloadConfirmation", "ReadyForMoreData"}
    THEN write_data_bosch_block(response, m.t = "DownloadConfirmation",
                                IF m.t = "DownloadConfirmation" THEN m.b[1]
                                ELSE max_len)
    ELSE IF m = RoutineNotComplete
    THEN \* continue
         /\ write_data_bosch_loop(response, io)
         /\ UNCHANGED <<enc_index, max_len, sent_bytes>>
    ELSE /\ UnexpectedResponse
         /\ UNCHANGED <<enc_index, max_len, sent_bytes, m>>

\* write_data_bosch(address, data, key), args = <<address>>
write_data_bosch ==
    /\ fn = "write_data_bosch"
    /\ UNCHANGED pure
    /\ \/ /\ pc = "start"
          /\ enc_index' = 0 /\ max_len' = 0 /\ sent_bytes' = 0
          /\ Send(Msg("RequestDataTransfer",
                      <<TT_Download, args[1], Len(data), CF_Bosch, EF_Bosch>>),
                  "write_data_bosch", 0, io)
          /\ UNCHANGED m
       \/ /\ pc = "handle" /\ step = 0
          \* line 158: the first response
          /\ write_data_bosch_loop(resp, io)
          /\ UNCHANGED <<enc_index, max_len, sent_bytes>>
       \/ /\ pc = "handle" /\ step = 1
          \* line 160 has read ahead into resp; m is processed now
          /\ write_data_bosch_body(resp)
    /\ UNCHANGED <<data, key>>
    /\ UNCHANGED <<retried, last_command, resp, skips, args, entry, upload>>

(***************************************************************************)
(* The specification.                                                      *)
(***************************************************************************)
Next ==
    \/ Call_programming_mode
    \/ Call_disconnect
    \/ Call_get_security_access
    \/ Call_security_access_timeout_bypass
    \/ Call_clear_security_wait
    \/ Call_read_data
    \/ Call_write_data_bosch
    \/ Call_use_fastest_timing
    \/ Call_next_response_expect_wait
    \/ NextRawMessage
    \/ Return_next_response_expect_wait
    \/ clear_security_wait
    \/ get_security_access
    \/ switch_mode
    \/ disconnect
    \/ use_fastest_timing
    \/ read_data
    \/ write_data_bosch

Spec == Init /\ [][Next]_vars

(***************************************************************************)
(* The frame codec applied to frames and to byte streams: to_bytes on a    *)
(* frame of new_query and from_bytes on what it wrote; from_bytes on a     *)
(* byte stream and to_bytes on what it decoded.                            *)
(***************************************************************************)
InitCodec ==
    /\ Client_new
    /\ BcbIdle
    /\ FnIdle
    /\ KLineIdle
    /\ bytes = NoBytes
    /\ decoded = NoDecoded
    /\ calls = <<>>
    /\ \/ raw_message \in MessageInputs /\ source = NoReader
       \/ raw_message = NoMessage /\ source \in StreamInputs

\* message.to_bytes(), on a frame of the caller or on the frame just decoded
Call_to_bytes ==
    /\ \/ calls = <<>> /\ raw_message # NoMessage
       \/ calls = <<"from_bytes">> /\ decoded.st = "Ok"
    /\ bytes' = to_bytes(raw_message)
    /\ calls' = Append(calls, "to_bytes")
    /\ UNCHANGED <<raw_message, source, decoded, client, bcb, fns, k_line>>

\* RawMessage::from_bytes(&mut source), on a stream of the caller or on the
\* bytes just written
from_bytes_returns(reader, r) ==
    /\ source' = reader
    /\ decoded' = r
    /\ raw_message' = IF r.st = "Ok" THEN r.v ELSE raw_message
    /\ calls' = Append(calls, "from_bytes")
    /\ UNCHANGED <<bytes, client, bcb, fns, k_line>>

Call_from_bytes ==
    \/ /\ calls = <<>> /\ raw_message = NoMessage
       /\ from_bytes_returns(source, from_bytes(source))
    \/ /\ calls = <<"to_bytes">> /\ bytes.st = "Ok"
       /\ from_bytes_returns(Reader(bytes.v, 0), from_bytes(Reader(bytes.v, 0)))

NextCodec ==
    \/ Call_to_bytes
    \/ Call_from_bytes

SpecCodec == InitCodec /\ [][NextCodec]_vars

(***************************************************************************)
(* bcb.rs: create_bcb_data applied to a buffer and an output budget, one   *)
(* turn of its while loop at a time.                                       *)
(***************************************************************************)
\* the buffers: every sequence of two byte values up to MaxInput bytes
RECURSIVE Buffers(_)
Buffers(n) ==
    IF n = 0 THEN {<<>>}
    ELSE Buffers(n - 1)
         \cup {Append(b, v) : b \in {c \in Buffers(n - 1) : Len(c) = n - 1},
                              v \in {85, 170}}

\* long runs of one byte: the 600 bytes of a flash block that is all 0xAA,
\* and runs about MAX_REPEATS long, at the end of the input or not
LONG_RUN == 600
LongRuns == {Rep(170, r) \o after : r \in {LONG_RUN, MAX_REPEATS - 1, MAX_REPEATS,
                                            MAX_REPEATS + 1, MAX_REPEATS + 2},
                                   after \in {<<>>, <<85>>}}

BcbInputs == Buffers(MaxInput) \cup LongRuns

\* the output budgets: 5 is the least a caller may pass
MIN_BUDGET == 5
Budgets == MIN_BUDGET..MaxBudget

\* create_bcb_data(data, max_len) is called
InitBcb ==
    /\ Client_new
    /\ CodecIdle
    /\ FnIdle
    /\ KLineIdle
    /\ bcb_data \in BcbInputs
    /\ bcb_max_len \in Budgets
    /\ current_index = 0 /\ compressed = <<>> /\ uncompressed_total = 0
    /\ bcb_pc = "loop"

\* one turn of the loop: next_bcb_block(..)?, then the two additions
create_bcb_data_block(blk) ==
    IF blk.st # "Ok"
    THEN bcb_pc' = "panicked" /\ UNCHANGED <<current_index, compressed, uncompressed_total>>
    ELSE /\ bcb_pc' = IF blk.n = 0 THEN "hung" ELSE "loop"
         /\ compressed' = compressed \o blk.out
         /\ current_index' = current_index + blk.n
         /\ uncompressed_total' = uncompressed_total + blk.n

create_bcb_data_turn ==
    /\ bcb_pc = "loop"
    /\ create_bcb_data_continues(bcb_data, bcb_max_len, current_index, compressed)
    /\ create_bcb_data_block(
          next_bcb_block(bcb_max_len - Len(compressed), current_index, bcb_data))
    /\ UNCHANGED <<bcb_data, bcb_max_len, client, codec, fns, k_line>>

\* the loop is left: Ok((uncompressed_total, compressed))
create_bcb_data_return ==
    /\ bcb_pc = "loop"
    /\ ~create_bcb_data_continues(bcb_data, bcb_max_len, current_index, compressed)
    /\ bcb_pc' = "returned"
    /\ UNCHANGED <<bcb_data, bcb_max_len, current_index, compressed,
                   uncompressed_total, client, codec, fns, k_line>>

NextBcb ==
    \/ create_bcb_data_turn
    \/ create_bcb_data_return

SpecBcb == InitBcb /\ [][NextBcb]_vars

(***************************************************************************)
(* The functions of mod.rs, message.rs and bcb.rs applied on their own to  *)
(* arguments drawn from bounded sets.                                      *)
(***************************************************************************)
\* the longest buffer handed to one call of encrypt_data
MaxPlain == 7
\* the number of calls of encrypt_data that share one key_index
MaxBlocks == 3

\* keys of the cipher: the ME7 key and a two-byte one
CipherKeys == {GEHEIM, <<90, 165>>}
Plaintexts == {Rep(85, n) : n \in 0..MaxPlain}

\* the buffers and budgets handed to encrypt_and_compress
BlockInputs == {Rep(170, LONG_RUN), Rep(85, 2) \o Rep(170, 6), Rep(85, 5)}
MAX_BLOCK == 128
BlockBudgets == {MAX_BLOCK, 9}

\* seeds the ECU can answer with
SeedBytes == {0, 1, 127, 128, 255}
Seeds == {<<a, b, c, d>> : a \in SeedBytes, b \in SeedBytes,
                           c \in SeedBytes, d \in SeedBytes}

\* baud rates: the ones a byte stands for, and one too slow for any byte
BaudBytes == 0..255
SLOW_RATE == 1200
BaudRates == {baud_rate_from_byte(b) : b \in BaudBytes} \cup {SLOW_RATE}

\* the arguments of a call of encrypt_data; plain and cipher are the blocks
\* of the calls before it, put together, as they went in and as they came out
EncryptInput(key_, data_, key_index, plain, cipher) ==
    [t |-> "encrypt_data", key |-> key_, data |-> data_, key_index |-> key_index,
     plain |-> plain, cipher |-> cipher]

InitFn ==
    /\ Client_new
    /\ CodecIdle
    /\ BcbIdle
    /\ KLineIdle
    /\ f_output = NoOutput
    /\ f_step = 0
    /\ \/ /\ f_name = "encrypt_data"
          /\ f_input \in {EncryptInput(k, <<>>, 0, <<>>, <<>>) : k \in CipherKeys}
       \/ /\ f_name = "encrypt_and_compress"
          /\ f_input \in [t : {"encrypt_and_compress"}, max_len : BlockBudgets,
                          data : BlockInputs, key_index : {0}, key : {GEHEIM},
                          is_first : BOOLEAN, overflow_checks : BOOLEAN]
       \/ /\ f_name = "security_key_from_seed"
          /\ f_input \in [t : {"security_key_from_seed"}, seed : Seeds]
       \/ /\ f_name = "baud_rate_to_byte"
          /\ f_input \in [t : {"baud_rate_to_byte"}, baud_rate : BaudRates,
                          overflow_checks : BOOLEAN]

\* the key_index the caller holds: 0 at first, then what the last call left
StoredKeyIndex == IF f_step = 0 THEN f_input.key_index ELSE f_output.key_index

\* encrypt_data(key, &mut block, &mut key_index), for block after block
Call_encrypt_data ==
    /\ f_name = "encrypt_data"
    /\ f_step < MaxBlocks
    /\ f_output.st \in {"", "Ok"}
    /\ \E block \in Plaintexts :
          /\ f_input' = EncryptInput(f_input.key, block, StoredKeyIndex,
                                     f_input.plain \o f_input.data,
                                     IF f_step = 0 THEN <<>>
                                     ELSE f_input.cipher \o f_output.out)
          /\ f_output' = encrypt_data(f_input.key, block, StoredKeyIndex)
    /\ f_step' = f_step + 1
    /\ UNCHANGED <<f_name, client, codec, bcb, k_line>>

Call_encrypt_and_compress ==
    /\ f_name = "encrypt_and_compress"
    /\ f_step = 0
    /\ f_output' = encrypt_and_compress(f_input.max_len, f_input.data,
                       f_input.key_index, f_input.key, f_input.is_first,
                       f_input.overflow_checks)
    /\ f_step' = 1
    /\ UNCHANGED <<f_name, f_input, client, codec, bcb, k_line>>

Call_security_key_from_seed ==
    /\ f_name = "security_key_from_seed"
    /\ f_step = 0
    /\ f_output' = [st |-> "Ok", key |-> security_key_from_seed(f_input.seed)]
    /\ f_step' = 1
    /\ UNCHANGED <<f_name, f_input, client, codec, bcb, k_line>>

\* Message::SendSecurityKey(key).raw() with the key computed from the seed
Call_raw_SendSecurityKey ==
    /\ f_name = "security_key_from_seed"
    /\ f_step = 1
    /\ f_output' = [st |-> "Ok", key |-> f_output.key,
                    query |-> raw(Msg("SendSecurityKey", f_output.key), TRUE)]
    /\ f_step' = 2
    /\ UNCHANGED <<f_name, f_input, client, codec, bcb, k_line>>

Call_baud_rate_to_byte ==
    /\ f_name = "baud_rate_to_byte"
    /\ f_step = 0
    /\ f_output' = baud_rate_to_byte(f_input.baud_rate, f_input.overflow_checks)
    /\ f_step' = 1
    /\ UNCHANGED <<f_name, f_input, client, codec, bcb, k_line>>

\* baud_rate_from_byte applied to the byte baud_rate_to_byte returned
Call_baud_rate_from_byte ==
    /\ f_name = "baud_rate_to_byte"
    /\ f_step = 1
    /\ f_output.st = "Ok"
    /\ f_output' = [st |-> "Ok", byte |-> f_output.v,
                    baud_rate |-> baud_rate_from_byte(f_output.v)]
    /\ f_step' = 2
    /\ UNCHANGED <<f_name, f_input, client, codec, bcb, k_line>>

NextFn ==
    \/ Call_encrypt_data
    \/ Call_encrypt_and_compress
    \/ Call_security_key_from_seed
    \/ Call_raw_SendSecurityKey
    \/ Call_baud_rate_to_byte
    \/ Call_baud_rate_from_byte

SpecFn == InitFn /\ [][NextFn]_vars

(***************************************************************************)
(* k_line.rs: the 5-baud wake-up and the key byte handshake.  The calls of *)
(* delay change nothing but the time and are not steps of their own.       *)
(***************************************************************************)
\* the number of calls of read_byte one initialisation is followed for
MaxLineReads == 4

SYNC_BYTE == 85
KEY_BYTE_2 == 143
INIT_ADDRESS == 1
KLineAddresses == {INIT_ADDRESS, 0, 16, 170, 255}

\* the calls of the trait's methods, as kl_line records them
LineCall(k, ok, b) == [k |-> k, ok |-> ok, b |-> b]

\* what read_byte can return to an initialisation of address
LineBytes(address) == {SYNC_BYTE, KEY_BYTE_2, 255 - address, 0}

\* bitbang's `((1 << n) & byte) == 0`
bitbang_state_Inverted(n, byte) == (byte \div Pow2(n)) % 2 # 0

bitbang_state(n, byte) ==
    (byte \div Pow2(n)) % 2 = 0

\* the statement init_kwp2000 goes on with without waiting for 0x8F
init_kwp2000_after_NoKeyByte(at) ==
    CASE at = "send_init_5baud" -> "wait_sync"
      [] at = "wait_sync" -> "write_byte"
      [] at = "wait_key" -> "write_byte"
      [] at = "write_byte" -> "wait_complement"
      [] at = "wait_complement" -> "returned"

\* the statement init_kwp2000 goes on with after the one at `at` returned Ok
init_kwp2000_after(at) ==
    CASE at = "send_init_5baud" -> "wait_sync"
      [] at = "wait_sync" -> "wait_key"
      [] at = "wait_key" -> "write_byte"
      [] at = "write_byte" -> "wait_complement"
      [] at = "wait_complement" -> "returned"

\* the byte wait_for_byte is called with at each of the three waits
WaitedFor(at, address) ==
    CASE at = "wait_sync" -> SYNC_BYTE
      [] at = "wait_key" -> KEY_BYTE_2
      [] at = "wait_complement" -> 255 - address

InitKLine ==
    /\ Client_new
    /\ CodecIdle
    /\ BcbIdle
    /\ FnIdle
    /\ kl_op \in {"send_init_5baud", "init_kwp2000"}
    /\ kl_address \in KLineAddresses
    /\ kl_pc = "set_low"
    /\ kl_n = 0
    /\ kl_line = <<>>
    /\ kl_result = ""

\* `?` on a call that failed: the error is returned at once
KLineFails(call) ==
    /\ kl_line' = Append(kl_line, call)
    /\ kl_result' = "Err"
    /\ kl_pc' = "returned"
    /\ UNCHANGED kl_n

\* the call returned Ok and the function goes on at `to`
KLineGoes(call, to) ==
    /\ kl_line' = Append(kl_line, call)
    /\ kl_pc' = to
    /\ kl_result' = IF to = "returned" THEN "Ok" ELSE ""

\* send_init_5baud, line 11: self.set_low()?
send_init_5baud_idle ==
    /\ kl_pc = "set_low"
    /\ \E ok \in BOOLEAN :
          IF ok THEN KLineGoes(LineCall("set_low", TRUE, 0), "set_high") /\ UNCHANGED kl_n
          ELSE KLineFails(LineCall("set_low", FALSE, 0))
    /\ UNCHANGED <<kl_op, kl_address, client, codec, bcb, fns>>

\* send_init_5baud, line 15: self.set_high()?
send_init_5baud_start ==
    /\ kl_pc = "set_high"
    /\ \E ok \in BOOLEAN :
          IF ok THEN KLineGoes(LineCall("set_high", TRUE, 0), "bitbang") /\ kl_n' = 0
          ELSE KLineFails(LineCall("set_high", FALSE, 0))
    /\ UNCHANGED <<kl_op, kl_address, client, codec, bcb, fns>>

\* the set_high or set_low of one turn of bitbang's loop
bitbang_call(state, ok) == LineCall(IF state THEN "set_high" ELSE "set_low", ok, 0)

\* bitbang: one turn of the loop over n in 0..8
bitbang_bit ==
    /\ kl_pc = "bitbang"
    /\ kl_n < 8
    /\ \E ok \in BOOLEAN :
          IF ok
          THEN /\ KLineGoes(bitbang_call(bitbang_state(kl_n, kl_address), TRUE), "bitbang")
               /\ kl_n' = kl_n + 1
          ELSE KLineFails(bitbang_call(bitbang_state(kl_n, kl_address), FALSE))
    /\ UNCHANGED <<kl_op, kl_address, client, codec, bcb, fns>>

\* bitbang, line 54: self.set_low()?, and the return through send_init_5baud
bitbang_release ==
    /\ kl_pc = "bitbang"
    /\ kl_n = 8
    /\ \E ok \in BOOLEAN :
          IF ok
          THEN /\ KLineGoes(LineCall("set_low", TRUE, 0),
                            IF kl_op = "send_init_5baud" THEN "returned"
                            ELSE init_kwp2000_after("send_init_5baud"))
               /\ UNCHANGED kl_n
          ELSE KLineFails(LineCall("set_low", FALSE, 0))
    /\ UNCHANGED <<kl_op, kl_address, client, codec, bcb, fns>>

\* the calls of read_byte made so far
LineReads == Len(SelectSeq(kl_line, LAMBDA c : c.k = "read_byte"))

\* wait_for_byte: one turn of `while self.read_byte()? != byte`
wait_for_byte ==
    /\ kl_pc \in {"wait_sync", "wait_key", "wait_complement"}
    /\ LineReads < MaxLineReads
    /\ \/ \E b \in LineBytes(kl_address) :
             KLineGoes(LineCall("read_byte", TRUE, b),
                       IF b = WaitedFor(kl_pc, kl_address)
                       THEN init_kwp2000_after(kl_pc) ELSE kl_pc)
       \/ KLineFails(LineCall("read_byte", FALSE, 0))
    /\ UNCHANGED <<kl_n, kl_op, kl_address, client, codec, bcb, fns>>

\* init_kwp2000, line 34: self.write_byte(0xFF - 0x8F)?
init_kwp2000_write ==
    /\ kl_pc = "write_byte"
    /\ \E ok \in BOOLEAN :
          IF ok
          THEN KLineGoes(LineCall("write_byte", TRUE, 255 - KEY_BYTE_2),
                         init_kwp2000_after("write_byte"))
          ELSE KLineFails(LineCall("write_byte", FALSE, 255 - KEY_BYTE_2))
    /\ UNCHANGED <<kl_n, kl_op, kl_address, client, codec, bcb, fns>>

NextKLine ==
    \/ send_init_5baud_idle
    \/ send_init_5baud_start
    \/ bitbang_bit
    \/ bitbang_release
    \/ wait_for_byte
    \/ init_kwp2000_write

SpecKLine == InitKLine /\ [][NextKLine]_vars



(***************************************************************************)
(* What the channel log of the current operation says.                     *)
(***************************************************************************)
\* the operation that runs or, once it has returned, the one that ran last
CurOp == IF op # "idle" THEN op ELSE result.op

\* the operation has returned to its caller
Returned(name) == pc = "idle" /\ result.op = name

\* the frame a read event delivered
FrameOf(ev) == Frame(ev.b[1], Skip(ev.b, 1))

\* a read that delivered a frame
IsFrameRead(ev) == ev.k = "r" /\ ev.t = "Frame"

\* a read that failed
IsFailedRead(ev) == ev.k = "r" /\ ev.t # "Frame"

\* a final response: a frame that is neither an echo nor a pending notice
IsFinal(ev) ==
    /\ IsFrameRead(ev)
    /\ from_raw(FrameOf(ev)).st = "Ok"
    /\ from_raw(FrameOf(ev)).v.t \notin {"Echo", "StillProcessing"}

\* the typed response of a final response
Typed(ev) == from_raw(FrameOf(ev)).v

\* a request the client wrote, or tried to write
IsSent(ev) == ev.k = "w"
IsAttempt(ev) == ev.k \in {"w", "wfail"}
IsAttemptOf(ev, t) == IsAttempt(ev) /\ ev.t = t

Requests == Cardinality({i \in DOMAIN io : IsSent(io[i])})
FinalResponses == Cardinality({i \in DOMAIN io : IsFinal(io[i])})
Attempts(t) == Cardinality({i \in DOMAIN io : IsAttemptOf(io[i], t)})

\* the final responses of the log, in order
Finals == SelectSeq(io, IsFinal)

\* the requests and the final responses of the log, in order
Dialogue == SelectSeq(io, LAMBDA ev : IsAttempt(ev) \/ IsFinal(ev))

\* the last event of the log
LastEvent == io[Len(io)]

RECURSIVE Concat(_)
Concat(ss) == IF ss = <<>> THEN <<>> ELSE Head(ss) \o Concat(Tail(ss))

(***************************************************************************)
(* Download and upload.                                                    *)
(***************************************************************************)
\* C1: write_data_bosch returns Ok only if the blocks it sent consumed the
\* whole buffer: whenever it has returned Ok, sent_bytes >= |data|.
C1_OkOnlyAfterWholeBuffer ==
    (Returned("write_data_bosch") /\ result.st = "Ok") => sent_bytes >= Len(data)

\* C2: in a download the client reads only when a request is outstanding:
\* at every read of write_data_bosch made while part of the buffer is still
\* to be sent, the requests sent exceed the final responses already received.
C2_RequestBeforeRead ==
    (op = "write_data_bosch" /\ pc = "read" /\ sent_bytes < Len(data))
        => Requests > FinalResponses

\* the ECU answered an upload with UploadConfirmation, then non-empty
\* TransferData responses, then an empty one, and nothing failed
UploadToEndOfStream ==
    /\ Returned("read_data")
    /\ \A i \in DOMAIN io : io[i].k # "wfail" /\ ~IsFailedRead(io[i])
    /\ Len(Finals) >= 2
    /\ Typed(Finals[1]).t = "UploadConfirmation"
    /\ \A j \in 2..(Len(Finals) - 1) :
          /\ FrameOf(Finals[j]).service = SR_TransferData
          /\ FrameOf(Finals[j]).data # <<>>
    /\ FrameOf(Finals[Len(Finals)]) = Frame(SR_TransferData, <<>>)
    /\ LastEvent = Finals[Len(Finals)]

\* the payloads of the non-empty TransferData responses, in order
UploadPayloads ==
    [j \in 1..(Len(Finals) - 2) |-> FrameOf(Finals[j + 1]).data]

\* C3: an upload that the ECU ends with an empty TransferData response
\* returns Ok(total), after k+1 RequestData frames, with the k payloads in
\* the destination in order.
C3_UploadEndsOk ==
    UploadToEndOfStream =>
        /\ Attempts("RequestData") = Len(Finals) - 1
        /\ destination = Concat(UploadPayloads)
        /\ result.st = "Ok"
        /\ result.n = Len(destination)

\* C4: a failed read inside read_data comes back to the caller as that
\* error; read_data never returns Ok after one.
C4_UploadReadErrorPropagates ==
    \A i \in DOMAIN io :
        (Returned("read_data") /\ IsFailedRead(io[i]))
            => (result.st = "Err" /\ result.e = io[i].t)

(***************************************************************************)
(* Security access.                                                        *)
(***************************************************************************)
\* a lockout answer: Error(SecurityAccess, TooManyAttempts | RequestingTooFast)
IsLockoutRead(ev) == IsFinal(ev) /\ IsLockout(Typed(ev))

\* the first attempt of security_access_timeout_bypass has just been
\* answered with a lockout error
LockoutOnFirstAttempt ==
    /\ CurOp = "security_access_timeout_bypass"
    /\ io # <<>>
    /\ IsLockoutRead(LastEvent)
    /\ Attempts("ClearLocalIdentifier") = 0

\* C5: a lockout answer to a request of the first attempt, be it
\* RequestSecuritySeed or SendSecurityKey, is not returned to the caller:
\* the call goes on to the bypass.
C5_LockoutStartsBypass ==
    LockoutOnFirstAttempt => ~Returned("security_access_timeout_bypass")

\* C6: one call of security_access_timeout_bypass sends the Clear, Define,
\* Write sequence at most once and RequestSecuritySeed at most twice; a
\* lockout answer to the retry is returned as an error.
C6_BypassAtMostOnce ==
    CurOp = "security_access_timeout_bypass" =>
        /\ Attempts("ClearLocalIdentifier") <= 1
        /\ Attempts("DefineLocalIdentifierAddress") <= 1
        /\ Attempts("WriteLocalIdentifier") <= 1
        /\ Attempts("RequestSecuritySeed") <= 2
        /\ (/\ Returned("security_access_timeout_bypass")
            /\ Attempts("RequestSecuritySeed") = 2
            /\ IsLockoutRead(LastEvent))
              => result.st = "Err"

\* the retry of a call that has run the bypass was answered with a lockout
C6_Witness ==
    /\ Returned("security_access_timeout_bypass")
    /\ Attempts("ClearLocalIdentifier") = 1
    /\ Attempts("RequestSecuritySeed") = 2
    /\ IsLockoutRead(LastEvent)
    /\ result.e = "SecurityTimout"

\* the requests of clear_security_wait, in order
BypassChain ==
    << Msg("ClearLocalIdentifier", <<240>>),
       Msg("DefineLocalIdentifierAddress", <<240, 2, 3673512>>),
       Msg("WriteLocalIdentifier", <<240, 0, 0>>) >>

\* the confirmations of those requests, in order
BypassConfirmations ==
    << Rsp("LocalIdentifierDefined", <<240>>),
       Rsp("LocalIdentifierDefined", <<240>>),
       Rsp("LocalIdentifierWritten", <<240>>) >>

\* C7: clear_security_wait sends Clear, Define, Write on identifier 0xF0 in
\* that order, each after the confirmation of the one before, and stops
\* with UnexpectedResponse, sending nothing more, on any other final
\* response.  The requests and final responses of the call alternate:
\* request j is BypassChain[j], and every response but the last one is the
\* confirmation of the request before it.
C7_ChainInOrder ==
    CurOp = "clear_security_wait" =>
        /\ Len(Dialogue) <= 6
        /\ \A j \in DOMAIN Dialogue :
              IF j % 2 = 1
              THEN /\ IsAttempt(Dialogue[j])
                   /\ Msg(Dialogue[j].t, Dialogue[j].b) = BypassChain[(j + 1) \div 2]
                   /\ (Dialogue[j].k = "wfail" => j = Len(Dialogue))
              ELSE /\ IsFinal(Dialogue[j])
                   /\ (j < Len(Dialogue)
                         => Typed(Dialogue[j]) = BypassConfirmations[j \div 2])
        /\ (/\ Returned("clear_security_wait")
            /\ Len(Dialogue) % 2 = 0
            /\ LastEvent = Dialogue[Len(Dialogue)])
              => IF /\ Len(Dialogue) = 6
                    /\ Typed(Dialogue[6]) = BypassConfirmations[3]
                 THEN result.st = "Ok"
                 ELSE IF Typed(Dialogue[Len(Dialogue)])
                            = BypassConfirmations[Len(Dialogue) \div 2]
                 THEN FALSE
                 ELSE result.st = "Err" /\ result.e = "UnexpectedResponse"
        /\ (Returned("clear_security_wait") /\ result.st = "Ok")
              => Len(Dialogue) = 6

\* the whole chain was sent and confirmed
C7_Witness ==
    /\ Returned("clear_security_wait")
    /\ result.st = "Ok"
    /\ Len(Dialogue) = 6

(***************************************************************************)
(* Mode switching.                                                         *)
(***************************************************************************)
\* a StartDiagnosticSession response that reports a baud rate
IsBaudReport(ev) == IsRead(ev, SR_StartDiagnosticSession) /\ Len(ev.b) >= 3

\* a StartDiagnosticSession response for another mode than the requested one
IsOtherMode(ev) == IsRead(ev, SR_StartDiagnosticSession) /\ ev.b[2] # args[1]

\* C8: switch_baud is called right after the read of a StartedDiagnosticMode
\* response that reports a baud rate, with that rate and before any other
\* event on the channel; it is not called otherwise.
C8_BaudSwitchFollowsResponse ==
    CurOp = "programming_mode" =>
        /\ \A i \in DOMAIN io :
              io[i].k = "b" =>
                 /\ i > 1
                 /\ IsBaudReport(io[i - 1])
                 /\ io[i].b = <<baud_rate_from_byte(io[i - 1].b[3])>>
                 /\ i = Len(io)
        /\ \A i \in DOMAIN io :
              (IsBaudReport(io[i]) /\ (i < Len(io) \/ Returned("programming_mode")))
                 => (i + 1 = Len(io) /\ io[i + 1].k = "b")
        /\ (Returned("programming_mode") /\ \A i \in DOMAIN io : ~IsBaudReport(io[i]))
              => \A i \in DOMAIN io : io[i].k # "b"

\* the baud rate was switched after a response that reported one
C8_Witness ==
    /\ Returned("programming_mode")
    /\ Len(io) >= 3
    /\ IsBaudReport(io[Len(io) - 1])
    /\ LastEvent = EvBaud(baud_rate_from_byte(io[Len(io) - 1].b[3]))

\* no baud rate was reported and none was switched to
C8_WitnessNoBaud ==
    /\ Returned("programming_mode")
    /\ result.st = "Ok"
    /\ \A i \in DOMAIN io : io[i].k # "b"

\* C9 as stated: a StartedDiagnosticMode response for another mode makes
\* switch_mode return UnexpectedMode with the client's state as it was.
C9_OtherModeGivesUnexpectedMode ==
    \A i \in DOMAIN io :
        (Returned("programming_mode") /\ IsOtherMode(io[i]))
            => /\ result.st = "Err" /\ result.e = "UnexpectedMode"
               /\ <<mode, security>> = entry

\* C9 amended: a StartedDiagnosticMode response for another mode makes
\* switch_mode return an error with the client's state as it was: the error
\* of switch_baud when the response reports a baud rate and the switch
\* fails, UnexpectedMode otherwise.
C9_OtherModeKeepsState ==
    \A i \in DOMAIN io :
        (Returned("programming_mode") /\ IsOtherMode(io[i]))
            => /\ result.st = "Err"
               /\ <<mode, security>> = entry
               /\ IF LastEvent.t = "switch_baud_failed"
                  THEN result.e = "SerialPort" /\ IsBaudReport(io[i])
                  ELSE result.e = "UnexpectedMode"

\* UnexpectedMode came back to a client that was not in the target mode
C9_Witness ==
    /\ Returned("programming_mode")
    /\ result.e = "UnexpectedMode"
    /\ \E i \in DOMAIN io : IsOtherMode(io[i])
    /\ entry = <<"UnknownMode", "WithSecurity">>
    /\ <<mode, security>> = entry

\* a successful mode change leaves the security at WithoutSecurity
ModeChangeDropsSecurity ==
    (/\ result.op \in {"programming_mode", "disconnect"}
     /\ pc = "idle"
     /\ result.st = "Ok")
        => security = "WithoutSecurity"

\* the security becomes WithSecurity only when get_security_access succeeds
SecurityOnlyByAccess ==
    (security # "WithSecurity" /\ security' = "WithSecurity")
        => /\ fn = "get_security_access"
           /\ op \in {"get_security_access", "security_access_timeout_bypass"}
           /\ result'.st = "Ok"

\* C10: after programming_mode or disconnect has returned Ok the tracked
\* security is WithoutSecurity whatever it was before, and it becomes
\* WithSecurity again only by a successful get_security_access.
C10_ModeChangeResetsSecurity ==
    [](ModeChangeDropsSecurity) /\ [][SecurityOnlyByAccess]_vars

\* a client with security access changed mode and lost it
C10_Witness ==
    /\ result.op \in {"programming_mode", "disconnect"}
    /\ pc = "idle"
    /\ result.st = "Ok"
    /\ entry[2] = "WithSecurity"
    /\ security = "WithoutSecurity"

(***************************************************************************)
(* The read loop: next_response and next_response_expect_wait.             *)
(***************************************************************************)
\* a frame whose service byte is a request service: the echo of a request
IsEchoFrame(ev) == IsFrameRead(ev) /\ ev.b[1] \in ServiceIdSet

\* a negative response whose code is 0x78, response pending
IsPendingFrame(ev) ==
    /\ IsFrameRead(ev)
    /\ ev.b[1] = SR_NegativeResponse
    /\ Len(ev.b) >= 3
    /\ ev.b[3] = SE_ResponsePending

\* the service a pending frame names
PendingService(ev) == ev.b[2]

\* the pending frame names the awaited command, or no command is awaited
PendingExpected(ev) ==
    last_command = <<>> \/ last_command = <<PendingService(ev)>>

\* a frame the loop reads past
IsPassedOver(ev) == IsEchoFrame(ev) \/ (IsPendingFrame(ev) /\ PendingExpected(ev))

\* the events of the log before the last one
Earlier == IF io = <<>> THEN <<>> ELSE SubSeq(io, 1, Len(io) - 1)

AllPassedOver(log) == \A i \in DOMAIN log : IsPassedOver(log[i])

DirectRead == CurOp = "next_response_expect_wait"

\* C11: next_response never hands Echo or StillProcessing to its caller, and
\* the value next_response_expect_wait returns on Ok is the first frame that
\* arrived which is neither a request-service frame nor a negative response
\* with code 0x78: it types the last frame read, and every frame read before
\* it is an echo or a pending notice.
C11_ReturnsFirstFinalFrame ==
    /\ (pc \in {"handle", "idle"} /\ resp.st = "Ok")
          => resp.v.t \notin {"Echo", "StillProcessing"}
    /\ (Returned("next_response_expect_wait") /\ result.st = "Ok")
          => /\ io # <<>>
             /\ IsFrameRead(LastEvent)
             /\ ~IsEchoFrame(LastEvent) /\ ~IsPendingFrame(LastEvent)
             /\ resp = from_raw(FrameOf(LastEvent))
             /\ \A i \in DOMAIN Earlier :
                   IsEchoFrame(io[i]) \/ IsPendingFrame(io[i])

\* Ok was returned after an echo was read and passed over
C11_Witness ==
    /\ Returned("next_response_expect_wait") /\ result.st = "Ok"
    /\ Len(io) = 2 /\ IsEchoFrame(io[1])

C13_UnexpectedPending ==
    (DirectRead /\ io # <<>> /\ AllPassedOver(Earlier) /\ IsPendingFrame(LastEvent))
        => IF PendingExpected(LastEvent)
           THEN op = "next_response_expect_wait" /\ pc = "read"
           ELSE /\ pc \in {"handle", "idle"}
                /\ resp = Err("UnexpectedPending")
                /\ (pc = "idle" => (result.st = "Err" /\ result.e = "UnexpectedPending"))

\* a pending notice of another service ended the call
C13_Witness ==
    /\ Returned("next_response_expect_wait")
    /\ result.e = "UnexpectedPending"
    /\ IsPendingFrame(LastEvent) /\ ~PendingExpected(LastEvent)

\* a pending notice of the awaited service was passed over
C13_WitnessExpected ==
    /\ op = "next_response_expect_wait" /\ pc = "read"
    /\ io # <<>> /\ IsPendingFrame(LastEvent)
    /\ last_command = <<PendingService(LastEvent)>>

(***************************************************************************)
(* The frame codec.  What a byte stream announces is read off its header   *)
(* here, independently of from_bytes.                                      *)
(***************************************************************************)
\* the last function applied
LastCall == IF calls = <<>> THEN "" ELSE calls[Len(calls)]

\* the stream from_bytes was applied to
Stream == source.data

\* the header of a stream: top two bits and low six bits of its first byte
HeaderMode(s) == (s[1] \div 64) * 64
HeaderInline(s) == s[1] % 64
AddressBytes(s) == IF HeaderMode(s) = AM_None THEN 0 ELSE 2
LengthBytes(s) == IF HeaderInline(s) = 0 THEN 1 ELSE 0
HeaderSize(s) == 1 + AddressBytes(s) + LengthBytes(s)
HeaderComplete(s) == Len(s) >= 1 /\ Len(s) >= HeaderSize(s)

\* the announced count of service and payload bytes
StatedLength(s) == IF HeaderInline(s) # 0 THEN HeaderInline(s) ELSE s[HeaderSize(s)]

\* the stated frame length: header, service and payload, checksum
FrameLength(s) == HeaderSize(s) + StatedLength(s) + 1

ServiceByte(s) == s[HeaderSize(s) + 1]

\* the stream holds the whole frame its header announces
WholeFrame(s) == HeaderComplete(s) /\ Len(s) >= FrameLength(s)

ChecksumRight(s) == s[FrameLength(s)] = WrappingSum(SubSeq(s, 1, FrameLength(s) - 1))

\* from_bytes was applied to a whole frame and no read failed
DecodedWholeFrame ==
    LastCall = "from_bytes" /\ source.fail_at = 0 /\ WholeFrame(Stream)

\* C14: for every frame new_query accepts, the bytes of to_bytes number
\* 1 + (0 or 2 addresses) + (0 or 1 length byte) + 1 + |payload| + 1, the
\* first byte is the format byte with the addressing mode in its top two
\* bits, and when 1 + |payload| > 63 the inline length bits are zero and the
\* length byte follows the addresses.
C14_EncodedShape ==
    (calls = <<"to_bytes">>)
        => /\ bytes.st = "Ok"
           /\ Len(bytes.v) = 1 + (IF raw_message.mode = AM_None THEN 0 ELSE 2)
                               + (IF 1 + Len(raw_message.data) <= 63 THEN 0 ELSE 1)
                               + 1 + Len(raw_message.data) + 1
           /\ HeaderMode(bytes.v) = raw_message.mode
           /\ (1 + Len(raw_message.data) > 63
                 => /\ HeaderInline(bytes.v) = 0
                    /\ bytes.v[HeaderSize(bytes.v)] = 1 + Len(raw_message.data))

\* C15: the last byte to_bytes writes is the sum modulo 256 of the bytes
\* before it; and from_bytes, given a whole frame with a known service byte,
\* returns Ok exactly when the frame's last byte is the sum modulo 256 of the
\* format, address, length, service and payload bytes, and InvalidChecksum
\* otherwise.
C15_AdditiveChecksum ==
    /\ (LastCall = "to_bytes" /\ bytes.st = "Ok")
          => bytes.v[Len(bytes.v)]
                = WrappingSum(SubSeq(bytes.v, 1, Len(bytes.v) - 1))
    /\ (/\ DecodedWholeFrame
        /\ StatedLength(Stream) >= 1
        /\ KnownService(ServiceByte(Stream)))
          => /\ decoded.st = "Ok" <=> ChecksumRight(Stream)
             /\ decoded.st # "Ok" => decoded.e = "InvalidChecksum"

\* an addressed frame with a length byte was accepted; its bytes sum to more
\* than 255
C15_Witness ==
    /\ calls = <<"from_bytes">> /\ decoded.st = "Ok"
    /\ decoded.v.mode # AM_None
    /\ HeaderInline(Stream) = 0
    /\ Len(decoded.v.data) > SHORT_DATA_LENGTH

\* a byte sequence that is a frame of the grammar
InGrammar(s) ==
    /\ HeaderComplete(s)
    /\ Len(s) = FrameLength(s)
    /\ \/ HeaderInline(s) \in 1..63
       \/ HeaderInline(s) = 0 /\ StatedLength(s) \in 64..255
    /\ KnownService(ServiceByte(s))
    /\ ChecksumRight(s)

\* C16: frame round trip: on every byte sequence that is a frame of the
\* grammar from_bytes succeeds, and to_bytes of the frame it decoded yields
\* the same byte sequence.
C16_FrameRoundTrip ==
    (source.fail_at = 0 /\ InGrammar(Stream))
        => /\ calls = <<"from_bytes">> => decoded.st = "Ok"
           /\ calls = <<"from_bytes", "to_bytes">> => bytes = Ok(Stream)

\* C17, as stated: on every byte sequence whose checksum byte is wrong
\* from_bytes returns InvalidChecksum, having consumed the stated frame
\* length and no byte beyond it.
C17_WrongChecksumAnySequence ==
    (calls = <<"from_bytes">> /\ DecodedWholeFrame /\ ~ChecksumRight(Stream))
        => decoded.e = "InvalidChecksum" /\ decoded.consumed = FrameLength(Stream)

\* C17, amended: on every byte sequence that announces at least the service
\* byte, has a known service byte and a wrong checksum byte, from_bytes
\* returns InvalidChecksum, having consumed the stated frame length and no
\* byte beyond it.
C17_WrongChecksumKnownService ==
    (/\ calls = <<"from_bytes">> /\ DecodedWholeFrame
     /\ StatedLength(Stream) >= 1
     /\ KnownService(ServiceByte(Stream))
     /\ ~ChecksumRight(Stream))
        => decoded.e = "InvalidChecksum" /\ decoded.consumed = FrameLength(Stream)

\* a frame with a wrong checksum and another frame's bytes behind it was
\* rejected
C17_Witness ==
    /\ calls = <<"from_bytes">> /\ DecodedWholeFrame
    /\ StatedLength(Stream) > SHORT_DATA_LENGTH
    /\ KnownService(ServiceByte(Stream))
    /\ ~ChecksumRight(Stream)
    /\ Len(Stream) > FrameLength(Stream)
    /\ decoded.e = "InvalidChecksum"

\* the stream ends after the service byte and before the last payload byte
PayloadCut(s) ==
    /\ HeaderComplete(s)
    /\ StatedLength(s) > 1
    /\ Len(s) >= HeaderSize(s) + 1
    /\ Len(s) < HeaderSize(s) + StatedLength(s)

\* C18: when the stream ends before the announced payload bytes are
\* available from_bytes returns NotEnoughData, and it never returns a frame
\* whose payload holds bytes that were not read.
C18_TruncatedPayload ==
    /\ (/\ calls = <<"from_bytes">> /\ source.fail_at = 0
        /\ PayloadCut(Stream) /\ KnownService(ServiceByte(Stream)))
          => decoded.e = "NotEnoughData"
    /\ (LastCall = "from_bytes" /\ decoded.st = "Ok")
          => decoded.payload_read = Len(decoded.v.data)

(***************************************************************************)
(* The compressor.                                                         *)
(***************************************************************************)
\* the block header at 0-based offset i of out: mode and length
BlockMode(out, i) == out[i + 1] \div 64
BlockLength(out, i) == (out[i + 1] % 64) * 256 + out[i + 2]

\* out expanded block by block from offset i on: a NoRepeats header of
\* length L is followed by L literal bytes, a Repeating header of length L by
\* one byte to repeat L times; ok is FALSE when out does not end with a
\* block
ExpandResult(ok, bytes_) == [ok |-> ok, out |-> bytes_]

RECURSIVE Expand(_, _, _)
Expand(out, i, acc) ==
    IF i = Len(out) THEN ExpandResult(TRUE, acc)
    ELSE IF i + 2 > Len(out) THEN ExpandResult(FALSE, acc)
    ELSE IF BlockMode(out, i) = RM_NoRepeats
         THEN IF i + 2 + BlockLength(out, i) > Len(out) THEN ExpandResult(FALSE, acc)
              ELSE Expand(out, i + 2 + BlockLength(out, i),
                          acc \o SubSeq(out, i + 3, i + 2 + BlockLength(out, i)))
    ELSE IF BlockMode(out, i) = RM_Repeating
         THEN IF i + 3 > Len(out) THEN ExpandResult(FALSE, acc)
              ELSE Expand(out, i + 3, acc \o Rep(out[i + 3], BlockLength(out, i)))
    ELSE ExpandResult(FALSE, acc)

\* C19: BCB round trip: whenever create_bcb_data(x, max) with max >= 5
\* returns (n, out), expanding out block by block consumes out exactly and
\* yields x[0..n].
C19_BcbRoundTrip ==
    (bcb_pc = "returned" /\ bcb_max_len >= 5)
        => /\ uncompressed_total <= Len(bcb_data)
           /\ Expand(compressed, 0, <<>>)
                 = ExpandResult(TRUE, SubSeq(bcb_data, 1, uncompressed_total))

\* C20: the compressor keeps to its budget: for max >= 5 the output that
\* create_bcb_data(x, max) returns has at most max bytes, and so has the
\* output accumulated after every block appended in its loop.
C20_WithinBudget ==
    /\ (bcb_pc # "idle" /\ bcb_max_len >= 5) => Len(compressed) <= bcb_max_len
    /\ (bcb_pc = "returned" /\ bcb_max_len >= 5)
          => /\ create_bcb_data(bcb_data, bcb_max_len)
                   = BcbOk(uncompressed_total, compressed)
             /\ Len(create_bcb_data(bcb_data, bcb_max_len).out) <= bcb_max_len

\* create_bcb_data returned with the budget used up and input left over
C20_Witness ==
    /\ bcb_pc = "returned"
    /\ bcb_max_len > 5
    /\ Len(compressed) = bcb_max_len
    /\ uncompressed_total < Len(bcb_data)

(***************************************************************************)
(* The cipher and the first block: encrypt_data, encrypt_and_compress.     *)
(***************************************************************************)
\* a call of the named function has returned Ok
FnReturned(name) == f_name = name /\ f_step > 0 /\ f_output.st = "Ok"

\* C21: with a non-empty key, the key_index that a call of encrypt_data
\* leaves behind, block after block from key_index 0, satisfies
\* 0 <= key_index < |key|
C21_KeyIndexInRange ==
    (FnReturned("encrypt_data") /\ Len(f_input.key) > 0)
        => (0 <= f_output.key_index /\ f_output.key_index < Len(f_input.key))

\* the first block of a download of LONG_RUN bytes 0xAA with max_block =
\* MAX_BLOCK under the key GEHEIM has been produced
IsFirstBlockOfLongRun ==
    /\ FnReturned("encrypt_and_compress")
    /\ f_input.data = Rep(170, LONG_RUN)
    /\ f_input.max_len = MAX_BLOCK
    /\ f_input.key = GEHEIM
    /\ f_input.key_index = 0
    /\ f_input.is_first

\* C22 as stated: for 600 bytes of 0xAA, max_block = 128 and the key GEHEIM,
\* key_index equals 3 after the first block produced by encrypt_and_compress
C22_KeyIndexThree == IsFirstBlockOfLongRun => f_output.key_index = 3

\* C22: for 600 bytes of 0xAA, max_block = 128 and the key GEHEIM, the first
\* block produced by encrypt_and_compress is the five bytes 1A 01 42 58 AA
\* encrypted from key_index 0, and key_index equals 5 after it
C22_KeyIndexFive ==
    IsFirstBlockOfLongRun
        => /\ f_output.key_index = 5
           /\ f_output.n = LONG_RUN
           /\ f_output.out = [i \in 1..5 |-> Xor8(<<26, 1, 66, 88, 170>>[i], GEHEIM[i])]

C22_Witness == IsFirstBlockOfLongRun /\ Len(f_output.out) = 5

(***************************************************************************)
(* The blocks next_bcb_block emits.                                        *)
(***************************************************************************)
\* the bytes one turn of the loop of create_bcb_data appends to compressed
Appended == SubSeq(compressed', Len(compressed) + 1, Len(compressed'))

\* one call of next_bcb_block wrote a block
BlockWritten == create_bcb_data_turn /\ Len(compressed') >= Len(compressed) + 2

\* C23: every literal (NoRepeats) block next_bcb_block emits has an even
\* length field and an even number of payload bytes, for every input,
\* starting position and max >= 5, also when the literal block is cut short
\* because a run was found further on
C23_EvenLiteralBlocks ==
    [][(BlockWritten /\ BlockMode(Appended, 0) = RM_NoRepeats)
          => /\ BlockLength(Appended, 0) % 2 = 0
             /\ (Len(Appended) - BLOCK_HEADER_SIZE) % 2 = 0]_vars

\* the length of the run of equal bytes at the head of s
HeadRunOf(s, others) ==
    IF others = {} THEN Len(s)
    ELSE (CHOOSE i \in others : \A j \in others : i <= j) - 1

HeadRun(s) == HeadRunOf(s, {i \in 1..Len(s) : s[i] # s[1]})

\* the specified length of the block of a run of r bytes
ClaimedRunLength(r) ==
    IF Min(r, 4096) % 2 = 0 THEN Min(r, 4096) ELSE Min(r, 4096) - 1

\* the first block of compressed is in place
FirstBlockWritten == bcb_pc # "idle" /\ bcb_max_len >= 5 /\ Len(compressed) > 0

\* C24: a run of r >= 4 equal bytes at the head of the input, with max >= 5,
\* is encoded as a first block of mode Repeating whose header is
\* (1 << 14) | L and whose payload is that byte, L = min(r, 0x1000) if that is
\* even and min(r, 0x1000) - 1 otherwise; 600 bytes of 0xAA give the header
\* 0x4258, the payload 0xAA and input_consumed = 600
C24_HeadRunBlock ==
    /\ (FirstBlockWritten /\ HeadRun(bcb_data) >= 4)
          => /\ Len(compressed) >= 3
             /\ (compressed[1] * 256) + compressed[2]
                   = 16384 + ClaimedRunLength(HeadRun(bcb_data))
             /\ compressed[3] = bcb_data[1]
             /\ (Len(compressed) = 3
                   => current_index = ClaimedRunLength(HeadRun(bcb_data)))
    /\ (FirstBlockWritten /\ bcb_data = Rep(170, LONG_RUN))
          => /\ compressed = <<66, 88, 170>>
             /\ uncompressed_total = LONG_RUN

\* the run at the head is odd and longer than one block can hold
C24_Witness ==
    /\ bcb_pc = "returned"
    /\ HeadRun(bcb_data) = MAX_REPEATS + 1
    /\ SubSeq(compressed, 1, 3) = <<80, 0, 170>>

\* the 600 bytes of 0xAA went into one block
C24_WitnessLongRun ==
    /\ bcb_pc = "returned"
    /\ bcb_data = Rep(170, LONG_RUN)
    /\ uncompressed_total = LONG_RUN

(***************************************************************************)
(* The blocks of one download.                                             *)
(***************************************************************************)
IsSendData(ev) == ev.k = "w" /\ ev.t = "SendData"

\* the TransferData blocks write_data_bosch has sent, in order
BlocksSent == SelectSeq(io, IsSendData)

\* the number of bytes in the blocks before block i
RECURSIVE BytesBefore(_, _)
BytesBefore(blocks, i) ==
    IF i <= 1 THEN 0
    ELSE BytesBefore(blocks, i - 1) + Len(blocks[i - 1].b)

\* byte j of block i as it was before the cipher, the key rotating from
\* key_index 0 at the first block over all the blocks
PlainByte(blocks, i, j) ==
    Xor8(blocks[i].b[j], key[((BytesBefore(blocks, i) + j - 1) % Len(key)) + 1])

\* block i starts with the prefix 1A 01
CarriesPrefix(blocks, i) ==
    /\ Len(blocks[i].b) >= 2
    /\ PlainByte(blocks, i, 1) = 26
    /\ PlainByte(blocks, i, 2) = 1

\* C25: in one download, whatever responses the loop accepts, exactly the
\* first TransferData block sent after RequestDownload starts with the
\* prefix 1A 01, encrypted with the block from key_index 0, the block with
\* its prefix is at most max_block bytes long, and no later block carries
\* the prefix
C25_PrefixOnFirstBlockOnly ==
    (op = "write_data_bosch" /\ Len(key) > 0)
        => \A i \in 1..Len(BlocksSent) :
              IF i = 1
              THEN /\ CarriesPrefix(BlocksSent, 1)
                   /\ Len(BlocksSent[1].b) <= max_len
              ELSE ~CarriesPrefix(BlocksSent, i)

(***************************************************************************)
(* The security key and the baud rate byte.                                *)
(***************************************************************************)
\* a u32 as its two 16-bit halves <<high, low>>
HalvesOf(b) == <<(b[1] * 256) + b[2], (b[3] * 256) + b[4]>>
BeBytesOf(h) == <<h[1] \div 256, h[1] % 256, h[2] \div 256, h[2] % 256>>

\* key << 1 modulo 2^32 on the halves
ShiftedHalves(h) == <<((h[1] * 2) + (h[2] \div 32768)) % 65536, (h[2] * 2) % 65536>>

\* ((key << 1) | 1) XOR 0x5FBD5DBD on the halves of key << 1
XoredHalves(sh) == <<XorBits(sh[1], 24509, 16), XorBits(sh[2] + 1, 23997, 16)>>

\* one round as specified; key >= 0x80000000 is high >= 0x8000
ClaimedRound(h) ==
    IF h[1] >= 32768 THEN XoredHalves(ShiftedHalves(h)) ELSE ShiftedHalves(h)

ClaimedKey(seed) ==
    BeBytesOf(ClaimedRound(ClaimedRound(ClaimedRound(ClaimedRound(ClaimedRound(
        HalvesOf(seed)))))))

\* C26: security_key_from_seed(seed) is the result of five rounds on the
\* big-endian u32 of the seed, a round taking key to ((key << 1) | 1) XOR
\* 0x5FBD5DBD when key >= 0x80000000 and to key << 1 otherwise, modulo 2^32
\* (the seed 00000000 gives 0); SendSecurityKey carries that value
\* big-endian after the sub-function byte 0x02
C26_SecurityKey ==
    FnReturned("security_key_from_seed")
        => /\ f_output.key = ClaimedKey(f_input.seed)
           /\ (f_input.seed = <<0, 0, 0, 0>> => f_output.key = <<0, 0, 0, 0>>)
           /\ f_step = 2
                 => f_output.query
                       = Ok([service |-> SID_SecurityAccess,
                             data |-> <<2>> \o ClaimedKey(f_input.seed)])

\* a seed with the top bit set has gone through the rounds and into the
\* request
C26_Witness ==
    /\ FnReturned("security_key_from_seed")
    /\ f_step = 2
    /\ f_input.seed = <<128, 0, 0, 1>>
    /\ f_output.key = <<133, 32, 173, 16>>

\* baud_rate_to_byte was applied to baud_rate and baud_rate_from_byte to the
\* byte it returned
RoundTripMade(baud_rate) ==
    /\ f_name = "baud_rate_to_byte"
    /\ f_step = 2
    /\ f_input.baud_rate = baud_rate

\* baud_rate_to_byte has returned or panicked
ToByteReturned == f_name = "baud_rate_to_byte" /\ f_step >= 1

\* C27: baud_rate_from_byte(baud_rate_to_byte(10400)) = 10400, and the same
\* for 38400
C27_BaudRoundTrip ==
    /\ (ToByteReturned /\ f_input.baud_rate \in {10400, 38400})
          => f_output.st = "Ok"
    /\ RoundTripMade(10400) => f_output.baud_rate = 10400
    /\ RoundTripMade(38400) => f_output.baud_rate = 38400

C27_Witness == RoundTripMade(38400) /\ f_output.byte = 80

C27_WitnessLow == RoundTripMade(10400) /\ f_output.byte = 20

\* the rates a byte stands for: exp in 0..=7 and z in 0..=31
AdmissibleRates == {Pow2(exp) * (z + 32) * 200 : exp \in 0..7, z \in 0..31}

\* C28: for every rate that is baud_rate_from_byte(b) of some byte b (exp in
\* 0..=7, z in 0..=31, z = 0 included, as in 12800 = 2 * 32 * 200),
\* baud_rate_to_byte(rate) completes without arithmetic underflow and
\* baud_rate_from_byte takes its result back to rate
C28_AdmissibleRatesRoundTrip ==
    /\ (ToByteReturned /\ f_input.baud_rate \in AdmissibleRates)
          => f_output.st = "Ok"
    /\ \A rate \in AdmissibleRates :
          RoundTripMade(rate) => f_output.baud_rate = rate

(***************************************************************************)
(* The initialisation of the K-line.                                       *)
(***************************************************************************)
\* call i of kl_line is a read_byte that returned b
ReadOf(i, b) == kl_line[i].k = "read_byte" /\ kl_line[i].ok /\ kl_line[i].b = b

IsWriteByte(c) == c.k = "write_byte"

\* 0x55 and then 0x8F were read before call i
KeyBytesReadBefore(i) ==
    \E j \in 1..(i - 1) : \E k \in (j + 1)..(i - 1) : ReadOf(j, 85) /\ ReadOf(k, 143)

\* C29: init_kwp2000(address) writes exactly one byte, the complement 0x70
\* of the key byte 0x8F, and only after it has read 0x55 and then 0x8F; it
\* returns success only after it has then read 0xFF - address; a read that
\* fails at any step is returned and no write follows it
C29_Handshake ==
    kl_op = "init_kwp2000"
        => /\ Len(SelectSeq(kl_line, IsWriteByte)) <= 1
           /\ \A i \in 1..Len(kl_line) :
                 /\ IsWriteByte(kl_line[i])
                       => kl_line[i].b = 112 /\ KeyBytesReadBefore(i)
                 /\ (kl_line[i].k = "read_byte" /\ ~kl_line[i].ok)
                       => i = Len(kl_line) /\ kl_result = "Err"
           /\ kl_result = "Ok"
                 => \E i \in 1..Len(kl_line) :
                       /\ IsWriteByte(kl_line[i]) /\ kl_line[i].ok
                       /\ \E j \in (i + 1)..Len(kl_line) : ReadOf(j, 255 - kl_address)

\* the handshake of the address 0x01 went through, one other byte being
\* passed over on the way
C29_Witness ==
    /\ kl_op = "init_kwp2000"
    /\ kl_address = 1
    /\ kl_result = "Ok"
    /\ ReadOf(Len(kl_line), 254)
    /\ LineReads = 4

\* a read failed after the key byte had been written
C29_WitnessFailedRead ==
    /\ kl_op = "init_kwp2000"
    /\ kl_result = "Err"
    /\ Len(SelectSeq(kl_line, IsWriteByte)) = 1
    /\ ~kl_line[Len(kl_line)].ok
    /\ kl_line[Len(kl_line)].k = "read_byte"

IsLineChange(c) == c.k \in {"set_low", "set_high"} /\ c.ok

\* the states the line was driven to, in order
LineChanges == [i \in 1..Len(SelectSeq(kl_line, IsLineChange)) |->
                   SelectSeq(kl_line, IsLineChange)[i].k]

\* low, high, one state for each bit of the address from bit 0 on, low;
\* of_one and of_zero are the states a 1 bit and a 0 bit are sent as
WakeUp(address, of_one, of_zero) ==
    <<"set_low", "set_high">>
      \o [n \in 1..8 |-> IF (address \div Pow2(n - 1)) % 2 = 1 THEN of_one ELSE of_zero]
      \o <<"set_low">>

\* send_init_5baud has returned Ok, on its own or within init_kwp2000
WakeUpSent ==
    \/ kl_op = "send_init_5baud" /\ kl_result = "Ok"
    \/ kl_op = "init_kwp2000" /\ kl_pc \notin {"set_low", "set_high", "bitbang"}
                              /\ Len(SelectSeq(kl_line, IsLineChange)) = 11

\* C30 as stated: send_init_5baud(address) drives the line low, then high,
\* then for n = 0..7, bit 0 first, high when bit n of the address is 1 and
\* low when it is 0, and at last low, and changes the line at no other time
C30_OneIsHigh ==
    WakeUpSent => LineChanges = WakeUp(kl_address, "set_high", "set_low")

\* C30: send_init_5baud(address) drives the line low, then high, then for
\* n = 0..7, bit 0 first, high when bit n of the address is 0 and low when
\* it is 1, and at last low; it changes the line at no other time, and when
\* a call fails the changes made are the first ones of that sequence
C30_ZeroIsHigh ==
    /\ WakeUpSent => LineChanges = WakeUp(kl_address, "set_low", "set_high")
    /\ kl_op # ""
          => /\ Len(LineChanges) <= 11
             /\ LineChanges = SubSeq(WakeUp(kl_address, "set_low", "set_high"),
                                     1, Len(LineChanges))

\* the address 0x01 has been sent: bit 0 low, the seven other bits high
C30_Witness ==
    /\ kl_op = "send_init_5baud"
    /\ kl_result = "Ok"
    /\ kl_address = 1
    /\ LineChanges = <<"set_low", "set_high", "set_low", "set_high", "set_high",
                       "set_high", "set_high", "set_high", "set_high", "set_high",
                       "set_low">>

(***************************************************************************)
(* disconnect and use_fastest_timing.                                      *)
(***************************************************************************)
\* the kinds of request attempted so far, in order
AttemptKinds == [i \in 1..Len(SelectSeq(io, IsAttempt)) |-> SelectSeq(io, IsAttempt)[i].t]

IsPrefixOf(s, t) == Len(s) <= Len(t) /\ s = SubSeq(t, 1, Len(s))

\* entry i of the dialogue is a final response of type t
IsFinalOf(i, t) ==
    /\ i <= Len(Dialogue)
    /\ IsFinal(Dialogue[i])
    /\ Typed(Dialogue[i]).t = t

\* entry i of the dialogue is a final response
IsFinalAt(i) == i <= Len(Dialogue) /\ IsFinal(Dialogue[i])

\* C31: disconnect sends StopDiagnosticSession and then StopCommunication; a
\* negative response (Response::Error of any code) to StopDiagnosticSession
\* does not abort it and StopCommunication is still sent; it returns a client
\* in state (Disconnected, WithoutSecurity) only if CommunicationStopped was
\* received, and on any other final response to StopCommunication it returns
\* an error with the tracked state of the client unchanged
C31_Disconnect ==
    CurOp = "disconnect"
        => /\ IsPrefixOf(AttemptKinds, <<"StopDiagnosticSession", "StopCommunication">>)
           /\ (IsFinalOf(2, "Error") /\ pc # "handle")
                 => /\ Len(Dialogue) >= 3
                    /\ IsAttemptOf(Dialogue[3], "StopCommunication")
           /\ (Returned("disconnect") /\ result.st = "Ok")
                 => /\ <<mode, security>> = <<"Disconnected", "WithoutSecurity">>
                    /\ Len(Dialogue) = 4
                    /\ IsFinalOf(4, "CommunicationStopped")
           /\ (Returned("disconnect") /\ IsFinalAt(4)
                 /\ ~IsFinalOf(4, "CommunicationStopped"))
                 => /\ result.st = "Err"
                    /\ <<mode, security>> = entry

\* the session refused to stop and the communication was stopped all the same
C31_Witness ==
    /\ Returned("disconnect")
    /\ result.st = "Ok"
    /\ IsFinalOf(2, "Error")
    /\ mode = "Disconnected"

\* StopCommunication was answered by something else
C31_WitnessRefused ==
    /\ Returned("disconnect")
    /\ IsFinalAt(4)
    /\ ~IsFinalOf(4, "CommunicationStopped")
    /\ entry = <<"ProgrammingMode", "WithSecurity">>
    /\ <<mode, security>> = entry

\* the Set request on the wire carries the five values of the response at
\* entry 2 of the dialogue
SetCarriesValues ==
    /\ Len(Dialogue) >= 3
    /\ IsAttemptOf(Dialogue[3], "ChangeTimingParameters")
    /\ raw(Msg(Dialogue[3].t, Dialogue[3].b), FALSE)
          = Ok([service |-> SID_AccessTimingParameter,
                data |-> <<TP_Set>> \o SubSeq(FrameOf(Dialogue[2]).data, 2, 6)])

\* the operation returned UnexpectedResponse after n entries of the dialogue
UnexpectedAfter(n) ==
    /\ result.st = "Err"
    /\ result.e = "UnexpectedResponse"
    /\ Len(Dialogue) = n

\* what the first and the second step have in common in C32
TimingSteps(accepted) ==
    /\ IsPrefixOf(AttemptKinds, <<"GetTimingLimits", "ChangeTimingParameters">>)
    /\ (accepted /\ pc # "handle") => SetCarriesValues
    /\ (Returned("use_fastest_timing") /\ IsFinalAt(2) /\ ~accepted)
          => UnexpectedAfter(2)
    /\ (Returned("use_fastest_timing") /\ result.st = "Ok")
          => Len(Dialogue) = 4 /\ IsFinalOf(4, "TimingSet")
    /\ (Returned("use_fastest_timing") /\ IsFinalAt(4) /\ ~IsFinalOf(4, "TimingSet"))
          => UnexpectedAfter(4)

\* C32 as stated: use_fastest_timing sends AccessTimingParameter(Limits); on
\* a TimingParameters response it sends AccessTimingParameter(Set) with the
\* five received values unchanged and returns Ok only if the next final
\* response is TimingSet; any other response at the first step returns
\* UnexpectedResponse without a Set frame, any other at the second step
\* returns UnexpectedResponse
C32_AnyTimingParameters ==
    CurOp = "use_fastest_timing" => TimingSteps(IsFinalOf(2, "TimingParameters"))

\* C32: as above, for a TimingParameters response of kind Limits; a
\* TimingParameters response of another kind is one of the other responses
\* of the first step
C32_TimingLimits ==
    CurOp = "use_fastest_timing"
        => TimingSteps(IsFinalOf(2, "TimingParameters")
                          /\ FrameOf(Dialogue[2]).data[1] = TP_Limits)

\* the limits were received, set and confirmed
C32_Witness ==
    /\ Returned("use_fastest_timing")
    /\ result.st = "Ok"
    /\ SetCarriesValues
    /\ Dialogue[3].b = <<1, 2, 3, 4, 5>>

\* the current timing came back instead of the limits
C32_WitnessRead ==
    /\ Returned("use_fastest_timing")
    /\ IsFinalOf(2, "TimingParameters")
    /\ FrameOf(Dialogue[2]).data[1] = TP_Read
    /\ UnexpectedAfter(2)

(***************************************************************************)
(* What the tracked state allows.                                          *)
(***************************************************************************)
\* the download request has gone out
DownloadRequested ==
    /\ CurOp = "write_data_bosch"
    /\ \E i \in DOMAIN io : IsSent(io[i]) /\ io[i].t = "RequestDataTransfer"

\* an operation was started on a client whose tracked mode is Disconnected
StartedWhenDisconnected == op # "idle" /\ entry[1] = "Disconnected"

\* C39: Disconnected is terminal: once disconnect has returned Ok (tracked
\* mode Disconnected) no operation of the client is enabled that writes a
\* further frame to the channel, neither programming_mode,
\* get_security_access, security_access_timeout_bypass, clear_security_wait
\* nor a second disconnect
C39_DisconnectedIsTerminal ==
    StartedWhenDisconnected => \A i \in DOMAIN io : ~IsAttempt(io[i])

\* C33: in every reachable state in which write_data_bosch can be started
\* (a RequestDownload frame is sent) the tracked state of the client is
\* ProgrammingMode and WithSecurity; the operation is not available without
\* security or in any other mode
C33_DownloadGuard ==
    /\ op = "write_data_bosch"
          => /\ entry = <<"ProgrammingMode", "WithSecurity">>
             /\ <<mode, security>> = entry
    /\ DownloadRequested => entry = <<"ProgrammingMode", "WithSecurity">>

C33_Witness == DownloadRequested /\ <<mode, security>> = <<"ProgrammingMode", "WithSecurity">>

(***************************************************************************)
(* The keystream over the blocks of a download.                            *)
(***************************************************************************)
\* the blocks handed to encrypt_data so far, put together, and what came out
AllPlain == f_input.plain \o f_input.data
AllCipher == f_input.cipher \o f_output.out

\* C34: when the blocks b1, ..., bk of one download are encrypted by
\* successive calls of encrypt_data that share one key_index starting at 0,
\* byte i (0-based) of b1 ++ ... ++ bk is XORed with key[i mod |key|], that
\* is the result is what one call on the whole gives, for every split into
\* blocks, blocks as long as a multiple of |key| and empty blocks included
C34_KeystreamContinuity ==
    FnReturned("encrypt_data")
        => /\ Len(AllCipher) = Len(AllPlain)
           /\ \A i \in 1..Len(AllPlain) :
                 AllCipher[i]
                    = Xor8(AllPlain[i], f_input.key[((i - 1) % Len(f_input.key)) + 1])
           /\ AllCipher = encrypt_data(f_input.key, AllPlain, 0).out

\* a block as long as the key, an empty block, and a block after them
C34_Witness ==
    /\ FnReturned("encrypt_data")
    /\ f_step = 3
    /\ f_input.key = GEHEIM
    /\ f_input.plain = Rep(85, 6)
    /\ f_input.key_index = 6
    /\ Len(f_input.data) = 2
    /\ f_output.key_index = 2

(***************************************************************************)
(* The compressor on every input: bounds, progress, the consumed count.    *)
(***************************************************************************)
\* create_bcb_data was called with a non-empty input and a budget of 5 or more
CompressorCalled == bcb_pc # "idle" /\ Len(bcb_data) > 0 /\ bcb_max_len >= 5

\* C35: the compressor never reads outside its input: for every non-empty
\* input and every max >= 5 each index next_bcb_block reads data at (data[x],
\* data[x + 1], data[y], the literal slice data[current_index..end]) lies
\* inside the input, so create_bcb_data returns a result and does not abort,
\* also when no run is found before the end of the input and when a literal
\* block is emitted at current_index > 0
C35_ReadsInsideInput == CompressorCalled => bcb_pc # "panicked"

\* C36: compression makes progress and ends: for every non-empty input
\* (inputs of length 1 and remainders of odd length included) and every
\* max >= 5 each turn of the loop of create_bcb_data consumes at least one
\* input byte, so create_bcb_data returns, and a download whose blocks are
\* all answered with ReadyForMoreData sends finitely many blocks and finishes
C36_EveryTurnConsumes ==
    [][(CompressorCalled /\ create_bcb_data_turn /\ bcb_pc' # "panicked")
          => (current_index' > current_index /\ bcb_pc' # "hung")]_vars

\* C37: the consumed count never exceeds the input: for every input and
\* every max >= 5 the count create_bcb_data returns is at most the length of
\* the input (and is the sum of the length fields of the blocks), so that
\* sent_bytes in write_data_bosch never exceeds the length of data
C37_ConsumedWithinInput ==
    (bcb_pc = "returned" /\ bcb_max_len >= 5)
        => uncompressed_total <= Len(bcb_data)

(***************************************************************************)
(* Where the decoder stops.                                                *)
(***************************************************************************)
\* C38: the decoder always stops at a frame boundary: after from_bytes has
\* returned a frame, InvalidChecksum or InvalidService it has consumed as
\* many bytes as the header of the frame announces (format, addresses if
\* any, length byte if any, `length` bytes, checksum), so that the next call
\* starts at the first byte of the next frame
C38_StopsAtFrameBoundary ==
    (/\ calls = <<"from_bytes">> /\ DecodedWholeFrame
     /\ StatedLength(Stream) >= 1
     /\ (decoded.st = "Ok" \/ decoded.e \in {"InvalidChecksum", "InvalidService"}))
        => decoded.consumed = FrameLength(Stream)

\* entry i of the dialogue is the positive response to a request to start or
\* to stop the diagnostic session, the request being entry i - 1
ModeChangeAt(i) ==
    /\ i > 1 /\ i <= Len(Dialogue)
    /\ \/ /\ IsAttemptOf(Dialogue[i - 1], "StartDiagnosticSession")
          /\ IsFinalOf(i, "StartedDiagnosticMode")
       \/ /\ IsAttemptOf(Dialogue[i - 1], "StopDiagnosticSession")
          /\ IsFinalOf(i, "DiagnosticSessionStopped")

\* C40: the tracked security never outlives a mode change of the ECU: in a
\* state where the client is at rest with tracked security WithSecurity, the
\* ECU has not positively acknowledged StartDiagnosticSession or
\* StopDiagnosticSession since the last SecurityAccessGranted, also after a
\* switch_mode that failed with UnexpectedMode and after a disconnect that
\* failed at the StopCommunication step
C40_SecurityNeverOutlivesMode ==
    (pc = "idle" /\ security = "WithSecurity")
        => \A i \in DOMAIN Dialogue :
              ModeChangeAt(i)
                 => \E j \in DOMAIN Dialogue :
                       j > i /\ IsFinalOf(j, "SecurityAccessGranted")

====
